---- MODULE Spec2Model ----
(***************************************************************************)
(* Multi-project dashboard server (MultiProjectDashboardServer): the       *)
(* registry of project workspaces, the periodic rescan, the watcher        *)
(* handlers, the active-session resolver and the WebSocket fan-out.        *)
(*                                                                         *)
(* Optional JavaScript values are sequences: <<>> is undefined, <<v>> is   *)
(* the value v.  Optional strings use the string Undefined.  Paths are     *)
(* sequences of segments of an absolute POSIX path.                        *)
(***************************************************************************)
EXTENDS Integers, Sequences, FiniteSets, TLC

VARIABLES
    \* ---- the resolver applied to one project's records (SpecResolver) ----
    rSpecs,      \* what parser.getAllSpecs() returned
    rBugs,       \* what parser.getAllBugs() returned
    rSession,    \* the session resolved from them; <<>> before
    \* ---- the environment ----
    disk,        \* workspace -> what is on disk and whether a process is attached
    diskEvents,  \* how many times the disk or an attached process has changed
    clock,         \* the clock, in rescan intervals
    \* ---- the server ----
    inst,        \* every initializeProject call: its project object and its watcher
    projects,    \* this.projects: the Map's entry list, in insertion order
    passes,      \* invocations of the rescan callback
    changes,     \* invocations of the watcher 'change' handler
    sock,        \* readyState of each client socket
    clients,     \* this.clients
    initials,    \* invocations of sendInitialState, one per socket
    out,         \* the messages sent by the last step, in order
    finished,    \* the rescan callback that returned in the last step, if one did
    \* ---- history ----
    lastDisc,    \* what the last completed undisturbed pass discovered
    lastSnap,    \* the snapshot it broadcast, while nothing has changed since
    removedPaths, \* paths announced as removed and not registered again
    \* ---- start(), stop(), the tunnel routes and the team manager ----
    life,        \* where start() and stop() are, and whether the timer is set
    tunnel,      \* this.tunnelManager and the tunnel collaborator behind it
    team,        \* the TeamManager's teams
    events,      \* the watcher events emitted and the typed messages received
    \* ---- the pull-request workflow (PRWorkflowManager) ----
    merge        \* the input of checkMergeReadiness and the MergeStatus returned

resolverVars == <<rSpecs, rBugs, rSession>>

serverVars == <<disk, diskEvents, clock, inst, projects, passes, changes, sock, clients,
                initials, out, finished, lastDisc, lastSnap, removedPaths>>

adapterVars == <<life, tunnel, team, events, merge>>

\* what the steps of the running server leave alone
restVars == <<rSpecs, rBugs, rSession, life, tunnel, team, events, merge>>

vars == <<rSpecs, rBugs, rSession, disk, diskEvents, clock, inst, projects,
          passes, changes, sock, clients, initials, out, finished, lastDisc,
          lastSnap, removedPaths, life, tunnel, team, events, merge>>

(***************************************************************************)
(* Bounds of the model.                                                    *)
(***************************************************************************)
MaxTime == 1          \* lastModified stamps are 1..MaxTime (or undefined)
MaxTicks == 2         \* firings of the rescan timer
MaxInits == 4         \* calls of initializeProject, those of start() included
MaxPasses == 1        \* rescan callbacks in flight at once
MaxChanges == 1       \* 'change' handlers in flight at once
MaxClients == 1       \* sockets that connect
MaxDiskEvents == 2    \* changes of the disk and of attached processes
HubClients == 2       \* sockets that connect in SpecHub

Undefined == "undefined"
None == <<>>
Some(v) == <<v>>

(***************************************************************************)
(* Paths: normalize(resolve(p)) of an absolute path.                       *)
(***************************************************************************)
RECURSIVE NormalizeFrom(_, _)
NormalizeFrom(done, rest) ==
    IF rest = <<>> THEN done
    ELSE LET s == Head(rest) IN
         IF s = "." \/ s = "" THEN NormalizeFrom(done, Tail(rest))
         ELSE IF s = ".."
              THEN NormalizeFrom(IF done = <<>> THEN done
                                 ELSE SubSeq(done, 1, Len(done) - 1), Tail(rest))
              ELSE NormalizeFrom(Append(done, s), Tail(rest))

NormalizePath(p) == NormalizeFrom(<<>>, p)

(***************************************************************************)
(* Parser records.                                                         *)
(***************************************************************************)
Task(id, description, completed, subtasks) ==
    [id |-> id, description |-> description, completed |-> completed,
     subtasks |-> subtasks]

TaskList ==
    << Task("1", "Set up", TRUE, <<>>),
       Task("2", "Build", FALSE,
            << Task("2.1", "Types", TRUE, <<>>),
               Task("2.3", "Resolver", FALSE, <<>>) >>) >>

\* spec.tasks: undefined, or {inProgress, taskList}
TasksValues ==
    { None,
      Some([inProgress |-> Undefined, taskList |-> TaskList]),
      Some([inProgress |-> "2.3", taskList |-> TaskList]),
      Some([inProgress |-> "7", taskList |-> TaskList]) }

Stamps == {None} \cup {Some(t) : t \in 1..MaxTime}

SpecStatuses == {"in-progress", "completed"}
BugStatuses == {"reported", "analyzing", "fixing", "fixed", "verifying", "resolved"}

SpecRecords(name, displayName) ==
    [name : {name}, displayName : {displayName}, status : SpecStatuses,
     lastModified : Stamps, tasks : TasksValues]

BugRecords(name, displayName) ==
    [name : {name}, displayName : {displayName}, status : BugStatuses,
     lastModified : Stamps, severity : {Undefined, "high"}]

SpecLists ==
    {<<>>} \cup {<<s>> : s \in SpecRecords("login", "Login")}
           \cup {<<s, t>> : s \in SpecRecords("login", "Login"),
                            t \in SpecRecords("search", Undefined)}

BugLists ==
    {<<>>} \cup {<<b>> : b \in BugRecords("crash", "Crash")}
           \cup {<<b, c>> : b \in BugRecords("crash", "Crash"),
                            c \in BugRecords("leak", Undefined)}

(***************************************************************************)
(* findTaskById: depth-first search of the task tree.                      *)
(***************************************************************************)
\* a search that looks at the top-level tasks only
FindTaskByIdTopLevel(tasks, taskId) ==
    IF \E k \in 1..Len(tasks) : tasks[k].id = taskId
    THEN Some(tasks[CHOOSE k \in 1..Len(tasks) : tasks[k].id = taskId])
    ELSE None

RECURSIVE FindTaskById(_, _)
FindTaskById(tasks, taskId) ==
    IF tasks = <<>> THEN None
    ELSE LET task == Head(tasks) IN
         IF task.id = taskId THEN Some(task)
         ELSE LET found == FindTaskById(task.subtasks, taskId) IN
              IF found # None THEN found
              ELSE FindTaskById(Tail(tasks), taskId)

(***************************************************************************)
(* collectActiveSessions, the body of the loop for one project.            *)
(***************************************************************************)
\* x.lastModified || new Date(0)
OrEpoch(lastModified) == IF lastModified = None THEN 0 ELSE lastModified[1]

\* x.displayName || x.name
DisplayNameOf(x) == IF x.displayName = Undefined THEN x.name ELSE x.displayName

\* spec.tasks && spec.tasks.inProgress
HasInProgress(spec) ==
    spec.tasks # None /\ spec.tasks[1].inProgress \notin {Undefined, ""}

ActiveBugStatuses == {"analyzing", "fixing", "verifying"}

WorkItem(type, item, priority) ==
    [type |-> type, item |-> item, lastModified |-> OrEpoch(item.lastModified),
     priority |-> priority]

Elements(seq) == {seq[k] : k \in 1..Len(seq)}

\* the elements of seq that are in kept, each turned into a work item
RECURSIVE Collect(_, _, _, _)
Collect(seq, kept, type, priority) ==
    IF seq = <<>> THEN <<>>
    ELSE IF Head(seq) \in kept
         THEN <<WorkItem(type, Head(seq), priority)>>
                  \o Collect(Tail(seq), kept, type, priority)
         ELSE Collect(Tail(seq), kept, type, priority)

IsActiveBug(bug) == bug.status \in ActiveBugStatuses
IsIncompleteSpec(spec) == spec.status # "completed"
\* a fallback that takes every bug
IsAnyBug(bug) == TRUE
IsUnresolvedBug(bug) == bug.status # "resolved"

PrioritySpecTask == 100
PriorityActiveBug == 90
PriorityFallback == 10

\* incomplete work collected without the gate and ranked like active work
ActiveWorkItemsUngated(specs, bugs) ==
    Collect(specs, {s \in Elements(specs) : HasInProgress(s)}, "spec", PrioritySpecTask)
        \o Collect(bugs, {b \in Elements(bugs) : IsActiveBug(b)}, "bug", PriorityActiveBug)
        \o Collect(specs, {s \in Elements(specs) : IsIncompleteSpec(s)}, "spec", PrioritySpecTask)
        \o Collect(bugs, {b \in Elements(bugs) : IsUnresolvedBug(b)}, "bug", PriorityActiveBug)

\* lines 692-741
ActiveWorkItems(specs, bugs) ==
    LET active == Collect(specs, {s \in Elements(specs) : HasInProgress(s)}, "spec", PrioritySpecTask)
                      \o Collect(bugs, {b \in Elements(bugs) : IsActiveBug(b)}, "bug", PriorityActiveBug)
    IN IF Len(active) = 0
       THEN Collect(specs, {s \in Elements(specs) : IsIncompleteSpec(s)}, "spec", PriorityFallback)
                \o Collect(bugs, {b \in Elements(bugs) : IsUnresolvedBug(b)}, "bug", PriorityFallback)
       ELSE active

\* a comparator that forgets the priority
CompareWorkItemsByDate(a, b) == b.lastModified - a.lastModified

\* a comparator that puts the oldest of a priority first
CompareWorkItemsOldestFirst(a, b) ==
    IF a.priority # b.priority THEN b.priority - a.priority
    ELSE a.lastModified - b.lastModified

\* the comparator of activeWorkItems.sort: negative when a goes first
CompareWorkItems(a, b) ==
    IF a.priority # b.priority THEN b.priority - a.priority
    ELSE b.lastModified - a.lastModified

\* an insertion that puts x before the elements it ties with
RECURSIVE InsertWorkItemBeforeTies(_, _)
InsertWorkItemBeforeTies(sorted, x) ==
    IF sorted = <<>> THEN <<x>>
    ELSE IF CompareWorkItems(x, Head(sorted)) <= 0 THEN <<x>> \o sorted
         ELSE <<Head(sorted)>> \o InsertWorkItemBeforeTies(Tail(sorted), x)

\* Array.prototype.sort is stable: x goes before the first element it precedes
RECURSIVE InsertWorkItem(_, _)
InsertWorkItem(sorted, x) ==
    IF sorted = <<>> THEN <<x>>
    ELSE IF CompareWorkItems(x, Head(sorted)) < 0 THEN <<x>> \o sorted
         ELSE <<Head(sorted)>> \o InsertWorkItem(Tail(sorted), x)

RECURSIVE SortWorkItems(_)
SortWorkItems(items) ==
    IF items = <<>> THEN <<>>
    ELSE InsertWorkItem(SortWorkItems(SubSeq(items, 1, Len(items) - 1)),
                        items[Len(items)])

PlaceholderTask(description) ==
    [id |-> "session", description |-> description, completed |-> FALSE,
     requirements |-> <<>>]

SpecSession(projectPath, project, spec, lastModified) ==
    LET found == IF HasInProgress(spec)
                 THEN FindTaskById(spec.tasks[1].taskList, spec.tasks[1].inProgress)
                 ELSE None
        activeTask == IF found = None THEN PlaceholderTask(DisplayNameOf(spec))
                      ELSE found[1]
    IN [type |-> "spec", projectPath |-> projectPath, projectName |-> project.name,
        displayName |-> DisplayNameOf(spec), specName |-> spec.name,
        status |-> spec.status, tasks |-> spec.tasks, task |-> activeTask,
        lastModified |-> lastModified,
        isCurrentlyActive |-> TRUE, hasActiveSession |-> TRUE,
        gitBranch |-> project.gitBranch, gitCommit |-> project.gitCommit]

\* a switch whose 'fixed' case asks for the analysis again
NextCommandFixedAnalyzes(bug) ==
    CASE bug.status = "fixing" -> <<"/bug-fix", bug.name>>
      [] bug.status = "verifying" -> <<"/bug-verify", bug.name>>
      [] bug.status = "resolved" -> <<>>
      [] OTHER -> <<"/bug-analyze", bug.name>>

NextCommand(bug) ==
    CASE bug.status = "reported" -> <<"/bug-analyze", bug.name>>
      [] bug.status = "analyzing" -> <<"/bug-analyze", bug.name>>
      [] bug.status = "fixing" -> <<"/bug-fix", bug.name>>
      [] bug.status = "verifying" -> <<"/bug-verify", bug.name>>
      [] bug.status = "fixed" -> <<"/bug-verify", bug.name>>
      [] bug.status = "resolved" -> <<>>
      [] OTHER -> <<"/bug-analyze", bug.name>>

BugSession(projectPath, project, bug, lastModified) ==
    [type |-> "bug", projectPath |-> projectPath, projectName |-> project.name,
     displayName |-> DisplayNameOf(bug), bugName |-> bug.name,
     bugStatus |-> bug.status, bugSeverity |-> bug.severity,
     nextCommand |-> NextCommand(bug), lastModified |-> lastModified,
     isCurrentlyActive |-> TRUE, hasActiveSession |-> TRUE,
     gitBranch |-> project.gitBranch, gitCommit |-> project.gitCommit]

\* the generic session without its mark
AdHocSessionUnmarked(projectPath, project, now) ==
    [type |-> "spec", projectPath |-> projectPath, projectName |-> project.name,
     displayName |-> "Ad-hoc Session", specName |-> "ad-hoc-session",
     task |-> PlaceholderTask("Active Claude session"),
     lastModified |-> now, isCurrentlyActive |-> TRUE, hasActiveSession |-> TRUE,
     gitBranch |-> project.gitBranch, gitCommit |-> project.gitCommit]

\* the generic session of a project with a running process and no work item;
\* now is what new Date() reads
AdHocSession(projectPath, project, now) ==
    [type |-> "spec", projectPath |-> projectPath, projectName |-> project.name,
     displayName |-> "Ad-hoc Session", specName |-> "ad-hoc-session",
     isAdHoc |-> TRUE, task |-> PlaceholderTask("Active Claude session"),
     lastModified |-> now, isCurrentlyActive |-> TRUE, hasActiveSession |-> TRUE,
     gitBranch |-> project.gitBranch, gitCommit |-> project.gitCommit]

ActiveSessionFor(projectPath, project, specs, bugs, now) ==
    LET activeWorkItems == SortWorkItems(ActiveWorkItems(specs, bugs)) IN
    IF Len(activeWorkItems) > 0
    THEN LET mostRecent == activeWorkItems[1] IN
         IF mostRecent.type = "spec"
         THEN SpecSession(projectPath, project, mostRecent.item, mostRecent.lastModified)
         ELSE BugSession(projectPath, project, mostRecent.item, mostRecent.lastModified)
    ELSE AdHocSession(projectPath, project, now)

\* session.isAdHoc, undefined counting as false
IsAdHoc(session) == "isAdHoc" \in DOMAIN session /\ session.isAdHoc

(***************************************************************************)
(* The final sort of collectActiveSessions.                                *)
(***************************************************************************)
\* String.prototype.localeCompare on the project names in use: the collation
\* order ignores case first, so "api" < "Web" < "zoo"
Collation == <<"api", "Web", "zoo">>
CollationRank(name) == CHOOSE k \in 1..Len(Collation) : Collation[k] = name
LocaleCompare(x, y) ==
    IF CollationRank(x) < CollationRank(y) THEN -1
    ELSE IF CollationRank(x) > CollationRank(y) THEN 1 ELSE 0

CompareSessions(a, b) ==
    IF a.isCurrentlyActive /\ ~b.isCurrentlyActive THEN -1
    ELSE IF ~a.isCurrentlyActive /\ b.isCurrentlyActive THEN 1
    ELSE LocaleCompare(a.projectName, b.projectName)

RECURSIVE InsertSession(_, _)
InsertSession(sorted, x) ==
    IF sorted = <<>> THEN <<x>>
    ELSE IF CompareSessions(x, Head(sorted)) < 0 THEN <<x>> \o sorted
         ELSE <<Head(sorted)>> \o InsertSession(Tail(sorted), x)

RECURSIVE InsertionSortSessions(_)
InsertionSortSessions(sessions) ==
    IF sessions = <<>> THEN <<>>
    ELSE InsertSession(InsertionSortSessions(SubSeq(sessions, 1, Len(sessions) - 1)),
                       sessions[Len(sessions)])

\* the list left in the order of the Map
UnsortedSessions(sessions) == sessions

\* lines 866-870
SortSessions(sessions) == InsertionSortSessions(sessions)

(***************************************************************************)
(* The environment: the workspaces on disk, as ProjectDiscovery and        *)
(* SpecParser see them.                                                    *)
(***************************************************************************)
Workspaces == {"a", "b"}
WorkspaceOrder == <<"a", "b">>       \* the order in which discovery lists them

CanonicalPath(w) == <<"ws", w>>
\* the forms in which discovery may report the path of w: "/ws/b/" has an
\* empty last segment
PathForms(w) ==
    IF w = "b" THEN {CanonicalPath(w), CanonicalPath(w) \o <<"">>}
    ELSE {CanonicalPath(w)}
WorkspaceAt(path) == CHOOSE w \in Workspaces : CanonicalPath(w) = path

ProjectName(w) == IF w = "a" THEN "Web" ELSE "api"

\* the documents of each workspace
DiskSpecs(w) ==
    IF w = "a"
    THEN << [name |-> "login", displayName |-> "Login", status |-> "in-progress",
             lastModified |-> Some(1),
             tasks |-> Some([inProgress |-> "2.3", taskList |-> TaskList])] >>
    ELSE <<>>
DiskBugs(w) ==
    IF w = "a"
    THEN << [name |-> "crash", displayName |-> Undefined, status |-> "analyzing",
             lastModified |-> None, severity |-> "high"] >>
    ELSE <<>>

\* parser.getAllSpecs(), getAllBugs(), getProjectSteeringStatus() of the
\* parser of the project at path: a missing directory lists nothing
GetAllSpecs(path) ==
    LET w == WorkspaceAt(path) IN IF disk[w].exists THEN DiskSpecs(w) ELSE <<>>
GetAllBugs(path) ==
    LET w == WorkspaceAt(path) IN IF disk[w].exists THEN DiskBugs(w) ELSE <<>>
GetProjectSteeringStatus(path) ==
    [exists |-> disk[WorkspaceAt(path)].exists]

\* discovery.discoverProjects(): a fresh object for each workspace found
RECURSIVE DiscoverFrom(_, _)
DiscoverFrom(d, order) ==
    IF order = <<>> THEN <<>>
    ELSE LET w == Head(order) IN
         (IF d[w].exists
          THEN << [path |-> d[w].path, name |-> ProjectName(w),
                   hasActiveSession |-> d[w].attached,
                   gitBranch |-> "main", gitCommit |-> Undefined] >>
          ELSE <<>>) \o DiscoverFrom(d, Tail(order))

DiscoverProjects(d) == DiscoverFrom(d, WorkspaceOrder)

(***************************************************************************)
(* this.projects: a Map iterates its entry list in insertion order; a      *)
(* deleted entry leaves a hole, a new key is appended, and an iterator is  *)
(* a position in the list, so it meets the entries added behind it.        *)
(***************************************************************************)
Live(projs) == {j \in 1..Len(projs) : projs[j] # None}
MapHas(projs, key) == \E j \in Live(projs) : projs[j][1].key = key
SlotOf(projs, key) == CHOOSE j \in Live(projs) : projs[j][1].key = key
MapSet(projs, key, id) ==
    IF MapHas(projs, key)
    THEN [projs EXCEPT ![SlotOf(projs, key)] = Some([key |-> key, inst |-> id])]
    ELSE Append(projs, Some([key |-> key, inst |-> id]))
MapDelete(projs, key) ==
    IF MapHas(projs, key) THEN [projs EXCEPT ![SlotOf(projs, key)] = None]
    ELSE projs
\* the entry an iterator at position k yields next; 0 when it is exhausted
MapNext(projs, k) ==
    IF \E j \in Live(projs) : j > k
    THEN CHOOSE j \in Live(projs) : j > k /\ \A h \in Live(projs) : h > k => j <= h
    ELSE 0
MapKeys(projs) == {projs[j][1].key : j \in Live(projs)}
RECURSIVE EntriesFrom(_, _)
EntriesFrom(projs, k) ==
    LET j == MapNext(projs, k) IN
    IF j = 0 THEN <<>> ELSE <<projs[j][1]>> \o EntriesFrom(projs, j)
MapEntries(projs) == EntriesFrom(projs, 0)

(***************************************************************************)
(* Messages.  A step's messages go to the sockets that pass the            *)
(* readyState test when the step runs.  A socket is "failing" when its     *)
(* readyState is 1 and its send() throws.  this.clients is a Set: forEach  *)
(* visits the sockets in the order they connected, the order of their      *)
(* numbers, and an exception thrown by send() ends the loop.               *)
(***************************************************************************)
OpenClients == {c \in clients : sock[c] = "open"}

\* the first socket of the fan-out whose send() throws; 0 when none does
FirstFailing ==
    IF \E c \in clients : sock[c] = "failing"
    THEN CHOOSE c \in clients :
            /\ sock[c] = "failing"
            /\ \A b \in clients : sock[b] = "failing" => c <= b
    ELSE 0

\* a fan-out now would throw out of its forEach
Throws == FirstFailing # 0

\* to: the sockets that got the message; tried: the sockets send() was called
\* on; threw: the socket whose send() threw
Broadcast(msg) ==
    LET got == {c \in OpenClients : FirstFailing = 0 \/ c < FirstFailing} IN
    [to |-> got,
     tried |-> IF Throws THEN got \cup {FirstFailing} ELSE got,
     threw |-> IF Throws THEN Some(FirstFailing) ELSE None,
     msg |-> msg]

\* a fan-out for each message in turn
BroadcastAll(msgs) == [k \in 1..Len(msgs) |-> Broadcast(msgs[k])]

ActiveSessionsUpdate(sessions) ==
    [type |-> "active-sessions-update", data |-> sessions]
ProjectData(project, path) ==
    [project |-> project, specs |-> GetAllSpecs(path), bugs |-> GetAllBugs(path),
     steering |-> GetProjectSteeringStatus(path)]

(***************************************************************************)
(* collectActiveSessions as a resumable computation: it runs until it      *)
(* awaits a parser read of a project with a running process.               *)
(***************************************************************************)
IdleCol == [stage |-> "idle", it |-> 0, acc |-> <<>>, cur |-> 0, key |-> <<>>]

\* a loop that visits every project
SkipsNothing(project) == FALSE

\* the test of line 676
SkipsProject(project) == ~project.hasActiveSession

RECURSIVE CollectFrom(_, _, _, _)
CollectFrom(it, acc, projs, insts) ==
    LET j == MapNext(projs, it) IN
    IF j = 0
    THEN [IdleCol EXCEPT !.stage = "done", !.acc = SortSessions(acc)]
    ELSE LET e == projs[j][1] IN
         IF SkipsProject(insts[e.inst].project)
         THEN CollectFrom(j, acc, projs, insts)
         ELSE [IdleCol EXCEPT !.stage = "reading", !.it = j, !.acc = acc,
                              !.cur = e.inst, !.key = e.key]

CollectActiveSessions(projs, insts) == CollectFrom(0, <<>>, projs, insts)

\* a loop that pushes nothing for a project without a work item
CollectReadWithoutAdHoc(col, projs, insts) ==
    IF ActiveWorkItems(GetAllSpecs(col.key), GetAllBugs(col.key)) = <<>>
    THEN CollectFrom(col.it, col.acc, projs, insts)
    ELSE CollectFrom(col.it,
                     Append(col.acc,
                            ActiveSessionFor(col.key, insts[col.cur].project,
                                             GetAllSpecs(col.key), GetAllBugs(col.key), clock)),
                     projs, insts)

\* getAllSpecs() and getAllBugs() of the project being visited have resolved
\* (lines 683-684): its session is pushed and the loop goes on
CollectRead(col, projs, insts) ==
    CollectFrom(col.it,
                Append(col.acc,
                       ActiveSessionFor(col.key, insts[col.cur].project,
                                        GetAllSpecs(col.key), GetAllBugs(col.key), clock)),
                projs, insts)

(***************************************************************************)
(* The rescan callback of startPeriodicRescan and initializeProject.       *)
(***************************************************************************)
IdlePass ==
    [pc |-> "idle", disc |-> <<>>, ref |-> <<>>, i |-> 0, it |-> 0,
     victim |-> None, col |-> IdleCol,
     \* history of the pass
     added |-> <<>>, removed |-> <<>>, started |-> 0, keys0 |-> {},
     prevDisc |-> None, prevSnap |-> None, solo |-> TRUE, clean |-> TRUE,
     snap |-> None]

\* project.path of the k-th discovered object: initializeProject overwrites it
ElemPath(ps, k, insts) ==
    IF ps.ref[k] = 0 THEN ps.disc[k].path ELSE insts[ps.ref[k]].project.path

Step(ps, projs, insts, outs) ==
    [pass |-> ps, projects |-> projs, inst |-> insts, out |-> outs]

\* a send() of the callback threw: its promise rejects and the callback is over
AbortPass(projs, insts, outs) == Step(IdlePass, projs, insts, outs)

\* a rescan that broadcasts the snapshot only after a change of the registry
FinishPassIfChanged(ps, projs, insts, outs, col) ==
    Step([ps EXCEPT !.pc = "done", !.col = IdleCol, !.snap = Some(col.acc),
                    !.i = 0, !.it = 0, !.victim = None],
         projs, insts,
         IF ps.added = <<>> /\ ps.removed = <<>> THEN outs
         ELSE Append(outs, Broadcast(ActiveSessionsUpdate(col.acc))))

\* lines 954-965
FinishPass(ps, projs, insts, outs, col) ==
    Step([ps EXCEPT !.pc = "done", !.col = IdleCol, !.snap = Some(col.acc),
                    !.i = 0, !.it = 0, !.victim = None],
         projs, insts, Append(outs, Broadcast(ActiveSessionsUpdate(col.acc))))

PassCollect(ps, projs, insts, outs, col) ==
    IF col.stage = "done" THEN FinishPass(ps, projs, insts, outs, col)
    ELSE Step([ps EXCEPT !.pc = "collect", !.col = col, !.i = 0, !.it = 0,
                         !.victim = None],
              projs, insts, outs)

\* lines 928-952, from iterator position it to the next await
RECURSIVE PruneFrom(_, _, _, _, _)
PruneFrom(ps, it, projs, insts, outs) ==
    LET j == MapNext(projs, it) IN
    IF j = 0
    THEN PassCollect(ps, projs, insts, outs, CollectActiveSessions(projs, insts))
    ELSE LET e == projs[j][1] IN
         IF \E k \in 1..Len(ps.disc) : ElemPath(ps, k, insts) = e.key
         THEN PruneFrom(ps, j, projs, insts, outs)
         ELSE Step([ps EXCEPT !.pc = "stopping", !.i = 0, !.it = j, !.victim = Some(e)],
                   projs, [insts EXCEPT ![e.inst].watcher = "stopped"], outs)

\* lines 506-626: initializeProject up to "await watcher.start()"
NewInstance(project) ==
    [project |-> [project EXCEPT !.path = NormalizePath(project.path)],
     watcher |-> "starting"]

\* the membership test of line 900
IsRegistered(projs, project) == MapHas(projs, project.path)

\* lines 899-922, from index i to the next await
RECURSIVE ScanFrom(_, _, _, _, _)
ScanFrom(ps, i, projs, insts, outs) ==
    IF i > Len(ps.disc) THEN PruneFrom(ps, 0, projs, insts, outs)
    ELSE IF IsRegistered(projs, ps.disc[i]) THEN ScanFrom(ps, i + 1, projs, insts, outs)
    ELSE Step([ps EXCEPT !.pc = "starting", !.i = i, !.ref[i] = Len(insts) + 1,
                         !.started = @ + 1],
              projs, Append(insts, NewInstance(ps.disc[i])), outs)

InFlight(ps) == ps.pc \notin {"idle", "done"}

\* the passes after pass p has run to ps: a callback that has returned
\* leaves its slot
PassesAfter(p, ps, others) ==
    [q \in DOMAIN others |->
        IF q = p THEN (IF ps.pc = "done" THEN IdlePass ELSE ps) ELSE others[q]]

\* the step r of pass p takes effect
ApplyStep(p, r, others) ==
    /\ Len(r.inst) <= MaxInits
    /\ passes' = PassesAfter(p, r.pass, others)
    /\ projects' = r.projects
    /\ inst' = r.inst
    /\ out' = r.out
    /\ IF r.pass.pc = "done"
       THEN /\ finished' = Some(r.pass)
            /\ lastDisc' = IF r.pass.solo THEN Some(r.pass.disc) ELSE None
            /\ lastSnap' = IF r.pass.solo /\ r.pass.clean THEN r.pass.snap ELSE None
       ELSE /\ finished' = None
            /\ UNCHANGED <<lastDisc, lastSnap>>

ApplyPass(p, r) == ApplyStep(p, r, passes)

\* the timer fires and discovery answers (lines 895-896)
RescanTick(p) ==
    /\ clock < MaxTicks
    /\ ~InFlight(passes[p])
    /\ \A q \in 1..(p - 1) : InFlight(passes[q])
    /\ LET alone == \A q \in DOMAIN passes : ~InFlight(passes[q])
           disc == DiscoverProjects(disk)
           ps == [IdlePass EXCEPT !.disc = disc, !.ref = [k \in 1..Len(disc) |-> 0],
                                  !.solo = alone, !.keys0 = MapKeys(projects),
                                  !.prevDisc = IF alone THEN lastDisc ELSE None,
                                  !.prevSnap = IF alone THEN lastSnap ELSE None]
       IN ApplyStep(p, ScanFrom(ps, 1, projects, inst, <<>>),
                    [q \in DOMAIN passes |->
                        IF InFlight(passes[q]) THEN [passes[q] EXCEPT !.solo = FALSE]
                        ELSE passes[q]])
    /\ clock' = clock + 1
    /\ UNCHANGED <<disk, diskEvents, changes, sock, clients, initials, removedPaths>>

\* watcher.start() has resolved: lines 627-633, then lines 905-906
PassStarted(p) ==
    /\ passes[p].pc = "starting"
    /\ LET ps == passes[p]
           id == ps.ref[ps.i]
           path == inst[id].project.path
       IN /\ ApplyPass(p, Step([ps EXCEPT !.pc = "announce"],
                               MapSet(projects, path, id),
                               [inst EXCEPT ![id].watcher = "running"], <<>>))
          /\ removedPaths' = removedPaths \ {path}
    /\ UNCHANGED <<disk, diskEvents, clock, changes, sock, clients, initials>>

\* the three parser reads have resolved: lines 906-922, then the loop goes on
PassAnnounce(p) ==
    /\ passes[p].pc = "announce"
    /\ LET ps == passes[p]
           project == inst[ps.ref[ps.i]].project
           msg == [type |-> "new-project", data |-> ProjectData(project, project.path)]
       IN IF Throws
          THEN ApplyPass(p, AbortPass(projects, inst, <<Broadcast(msg)>>))
          ELSE ApplyPass(p, ScanFrom([ps EXCEPT !.added = Append(@, project.path)],
                                     ps.i + 1, projects, inst, <<Broadcast(msg)>>))
    /\ UNCHANGED <<disk, diskEvents, clock, changes, sock, clients, initials, removedPaths>>

\* watcher.stop() has resolved: lines 936-950, then the loop goes on
PassStopped(p) ==
    /\ passes[p].pc = "stopping"
    /\ LET ps == passes[p]
           path == ps.victim[1].key
           msg == [type |-> "remove-project", data |-> [path |-> path]]
       IN /\ IF Throws
             THEN ApplyPass(p, AbortPass(MapDelete(projects, path), inst,
                                         <<Broadcast(msg)>>))
             ELSE ApplyPass(p, PruneFrom([ps EXCEPT !.removed = Append(@, path)], ps.it,
                                         MapDelete(projects, path), inst,
                                         <<Broadcast(msg)>>))
          /\ removedPaths' = removedPaths \cup {path}
    /\ UNCHANGED <<disk, diskEvents, clock, changes, sock, clients, initials>>

PassRead(p) ==
    /\ passes[p].pc = "collect"
    /\ ApplyPass(p, PassCollect(passes[p], projects, inst, <<>>,
                                CollectRead(passes[p].col, projects, inst)))
    /\ UNCHANGED <<disk, diskEvents, clock, changes, sock, clients, initials, removedPaths>>

(***************************************************************************)
(* The watcher handlers registered by initializeProject.  id is the call   *)
(* whose closure holds the project object.                                 *)
(***************************************************************************)
IdleChange == [pc |-> "idle", col |-> IdleCol]

\* a 'change' handler that sends what it has to send once
\* collectActiveSessions has returned
ChangeCollectThenSend(h, outs, col) ==
    LET held == (IF "held" \in DOMAIN changes[h] THEN changes[h].held ELSE <<>>)
                    \o [k \in 1..Len(outs) |-> outs[k].msg]
    IN IF col.stage = "done"
       THEN /\ changes' = [changes EXCEPT ![h] = IdleChange]
            /\ out' = Append(BroadcastAll(held), Broadcast(ActiveSessionsUpdate(col.acc)))
       ELSE /\ changes' = [changes EXCEPT ![h] = [pc |-> "collect", col |-> col,
                                                  held |-> held]]
            /\ out' = <<>>

\* lines 534-559: what is sent before and after "await collectActiveSessions()"
ChangeCollect(h, outs, col) ==
    IF col.stage = "done"
    THEN /\ changes' = [changes EXCEPT ![h] = IdleChange]
         /\ out' = Append(outs, Broadcast(ActiveSessionsUpdate(col.acc)))
    ELSE /\ changes' = [changes EXCEPT ![h] = [pc |-> "collect", col |-> col]]
         /\ out' = outs

\* lines 515-548
WatcherChange(h, id) ==
    /\ finished' = None
    /\ inst[id].watcher = "running"
    /\ changes[h].pc = "idle"
    /\ \A g \in 1..(h - 1) : changes[g].pc # "idle"
    /\ LET msg == [type |-> "project-update", projectPath |-> inst[id].project.path,
                   data |-> [type |-> "spec-update", spec |-> "login"]]
       IN IF Throws
          THEN \* line 536 throws: the handler's promise rejects
               /\ out' = <<Broadcast(msg)>>
               /\ UNCHANGED changes
          ELSE ChangeCollect(h, <<Broadcast(msg)>>, CollectActiveSessions(projects, inst))
    /\ UNCHANGED <<disk, diskEvents, clock, inst, projects, passes, sock, clients,
                   initials, lastDisc, lastSnap, removedPaths>>

\* lines 548-559
ChangeRead(h) ==
    /\ finished' = None
    /\ changes[h].pc = "collect"
    /\ ChangeCollect(h, <<>>, CollectRead(changes[h].col, projects, inst))
    /\ UNCHANGED <<disk, diskEvents, clock, inst, projects, passes, sock, clients,
                   initials, lastDisc, lastSnap, removedPaths>>

\* what a 'git-change' event may carry: each field is optional
GitBranches == {Undefined, "dev"}
GitCommits == {Undefined, "c1"}

\* a handler that stores whatever the event carries, undefined included
WatcherGitChangeOverwrites(id, branch, commit) ==
    /\ finished' = None
    /\ inst[id].watcher = "running"
    /\ inst' = [inst EXCEPT ![id].project.gitBranch = branch,
                            ![id].project.gitCommit = commit]
    /\ out' = <<Broadcast([type |-> "git-update", projectPath |-> inst[id].project.path,
                           gitBranch |-> branch, gitCommit |-> commit])>>
    /\ UNCHANGED <<disk, diskEvents, clock, projects, passes, changes, sock, clients,
                   initials, lastDisc, lastSnap, removedPaths>>

\* lines 563-587
WatcherGitChange(id, branch, commit) ==
    /\ finished' = None
    /\ inst[id].watcher = "running"
    /\ LET project == inst[id].project
           gitBranch == IF branch # Undefined THEN branch ELSE project.gitBranch
           gitCommit == IF commit # Undefined THEN commit ELSE project.gitCommit
       IN /\ inst' = [inst EXCEPT ![id].project.gitBranch = gitBranch,
                                  ![id].project.gitCommit = gitCommit]
          /\ out' = <<Broadcast([type |-> "git-update", projectPath |-> project.path,
                                 gitBranch |-> gitBranch, gitCommit |-> gitCommit])>>
    /\ UNCHANGED <<disk, diskEvents, clock, projects, passes, changes, sock, clients,
                   initials, lastDisc, lastSnap, removedPaths>>

\* lines 590-605
WatcherSteeringChange(id) ==
    /\ finished' = None
    /\ inst[id].watcher = "running"
    /\ out' = <<Broadcast([type |-> "steering-update",
                           projectPath |-> inst[id].project.path,
                           data |-> GetProjectSteeringStatus(inst[id].project.path)])>>
    /\ UNCHANGED <<disk, diskEvents, clock, inst, projects, passes, changes, sock,
                   clients, initials, lastDisc, lastSnap, removedPaths>>

\* lines 608-623
WatcherBugChange(id) ==
    /\ finished' = None
    /\ inst[id].watcher = "running"
    /\ out' = <<Broadcast([type |-> "bug-update",
                           projectPath |-> inst[id].project.path,
                           data |-> [type |-> "bug-update", bug |-> "crash"]])>>
    /\ UNCHANGED <<disk, diskEvents, clock, inst, projects, passes, changes, sock,
                   clients, initials, lastDisc, lastSnap, removedPaths>>

(***************************************************************************)
(* The /ws endpoint and sendInitialState.                                  *)
(***************************************************************************)
IdleInitial == [pc |-> "idle", entries |-> <<>>, data |-> <<>>, col |-> IdleCol]

\* line 661: socket.send, with no readyState test
SendInitial(c, ini, col) ==
    /\ initials' = [initials EXCEPT ![c] =
                       [IdleInitial EXCEPT !.pc = IF sock[c] = "failing" THEN "failed"
                                                 ELSE "done"]]
    /\ out' = << [to |-> IF sock[c] = "open" THEN {c} ELSE {},
                  tried |-> {c},
                  threw |-> IF sock[c] = "failing" THEN Some(c) ELSE None,
                  msg |-> [type |-> "initial", data |-> ini.data,
                           activeSessions |-> col.acc, username |-> "User"]] >>

InitialCollect(c, ini, col) ==
    IF col.stage = "done" THEN SendInitial(c, ini, col)
    ELSE /\ initials' = [initials EXCEPT ![c] = [ini EXCEPT !.pc = "collect", !.col = col]]
         /\ out' = <<>>

\* lines 167-174 and 637-638: the entries are listed when the socket connects
Connect(c) ==
    /\ finished' = None
    /\ sock[c] = "absent"
    /\ \A b \in 1..(c - 1) : sock[b] # "absent"
    /\ sock' = [sock EXCEPT ![c] = "open"]
    /\ clients' = clients \cup {c}
    /\ initials' = [initials EXCEPT ![c] =
                       [IdleInitial EXCEPT !.pc = "reading",
                                           !.entries = MapEntries(projects)]]
    /\ out' = <<>>
    /\ UNCHANGED <<disk, diskEvents, clock, inst, projects, passes, changes,
                   lastDisc, lastSnap, removedPaths>>

\* Promise.all has resolved (lines 639-651), then line 654
InitialProjectsRead(c) ==
    /\ finished' = None
    /\ initials[c].pc = "reading"
    /\ LET ini == initials[c]
           data == [k \in 1..Len(ini.entries) |->
                       ProjectData(inst[ini.entries[k].inst].project, ini.entries[k].key)]
       IN InitialCollect(c, [ini EXCEPT !.data = data, !.entries = <<>>],
                         CollectActiveSessions(projects, inst))
    /\ UNCHANGED <<disk, diskEvents, clock, inst, projects, passes, changes, sock,
                   clients, lastDisc, lastSnap, removedPaths>>

\* lines 654-668
InitialRead(c) ==
    /\ finished' = None
    /\ initials[c].pc = "collect"
    /\ InitialCollect(c, initials[c], CollectRead(initials[c].col, projects, inst))
    /\ UNCHANGED <<disk, diskEvents, clock, inst, projects, passes, changes, sock,
                   clients, lastDisc, lastSnap, removedPaths>>

\* a parser read of sendInitialState rejects (lines 639-641 or 683-684):
\* nothing catches it, the promise of line 175 rejects and nothing is sent
InitialFails(c) ==
    /\ finished' = None
    /\ initials[c].pc \in {"reading", "collect"}
    /\ initials' = [initials EXCEPT ![c] = [IdleInitial EXCEPT !.pc = "failed"]]
    /\ out' = <<>>
    /\ UNCHANGED <<disk, diskEvents, clock, inst, projects, passes, changes, sock,
                   clients, lastDisc, lastSnap, removedPaths>>

\* the socket's send() starts to throw while its readyState is still 1
SocketFails(c) ==
    /\ finished' = None
    /\ sock[c] = "open"
    /\ sock' = [sock EXCEPT ![c] = "failing"]
    /\ out' = <<>>
    /\ UNCHANGED <<disk, diskEvents, clock, inst, projects, passes, changes, clients,
                   initials, lastDisc, lastSnap, removedPaths>>

\* lines 180-183: the socket's 'error' event
SocketError(c) ==
    /\ finished' = None
    /\ sock[c] = "failing"
    /\ sock' = [sock EXCEPT ![c] = "closed"]
    /\ clients' = clients \ {c}
    /\ out' = <<>>
    /\ UNCHANGED <<disk, diskEvents, clock, inst, projects, passes, changes,
                   initials, lastDisc, lastSnap, removedPaths>>

\* the socket leaves the open state; its 'close' event comes later
SocketClosing(c) ==
    /\ finished' = None
    /\ sock[c] = "open"
    /\ sock' = [sock EXCEPT ![c] = "closing"]
    /\ out' = <<>>
    /\ UNCHANGED <<disk, diskEvents, clock, inst, projects, passes, changes, clients,
                   initials, lastDisc, lastSnap, removedPaths>>

\* lines 176-178
SocketClose(c) ==
    /\ finished' = None
    /\ sock[c] = "closing"
    /\ sock' = [sock EXCEPT ![c] = "closed"]
    /\ clients' = clients \ {c}
    /\ out' = <<>>
    /\ UNCHANGED <<disk, diskEvents, clock, inst, projects, passes, changes,
                   initials, lastDisc, lastSnap, removedPaths>>

(***************************************************************************)
(* The environment's steps.                                                *)
(***************************************************************************)
\* a change on disk or of a process: the snapshots taken before are no
\* longer snapshots of unchanged data
DiskChanges(d) ==
    /\ finished' = None
    /\ diskEvents < MaxDiskEvents
    /\ diskEvents' = diskEvents + 1
    /\ disk' = d
    /\ lastSnap' = None
    /\ passes' = [p \in DOMAIN passes |->
                     IF InFlight(passes[p])
                     THEN [passes[p] EXCEPT !.prevSnap = None, !.clean = FALSE]
                     ELSE passes[p]]
    /\ out' = <<>>
    /\ UNCHANGED <<clock, inst, projects, changes, sock, clients, initials, lastDisc,
                   removedPaths>>

WorkspaceRemoved(w) ==
    /\ disk[w].exists
    /\ DiskChanges([disk EXCEPT ![w].exists = FALSE, ![w].attached = FALSE])

WorkspaceCreated(w) ==
    /\ ~disk[w].exists
    /\ \E attached \in BOOLEAN :
          DiskChanges([disk EXCEPT ![w].exists = TRUE, ![w].attached = attached])

(***************************************************************************)
(* Spec: the server after start() (lines 106-122: every discovered project *)
(* initialized in turn), with the rescan timer running.                    *)
(***************************************************************************)
RECURSIVE StartFrom(_, _, _)
StartFrom(disc, projs, insts) ==
    IF disc = <<>> THEN [projects |-> projs, inst |-> insts]
    ELSE LET obj == [NewInstance(Head(disc)) EXCEPT !.watcher = "running"] IN
         StartFrom(Tail(disc), MapSet(projs, obj.project.path, Len(insts) + 1),
                   Append(insts, obj))

Disks ==
    {d \in [Workspaces -> [exists : BOOLEAN, attached : BOOLEAN,
                           path : UNION {PathForms(w) : w \in Workspaces}]] :
        \A w \in Workspaces : /\ d[w].path \in PathForms(w)
                              /\ d[w].attached => d[w].exists}

ResolverIdle ==
    /\ rSpecs = <<>>
    /\ rBugs = <<>>
    /\ rSession = None

\* the server after start(): the timer is set, no tunnel manager (options.tunnel
\* unset), no team, no watcher event yet
LifeRunning ==
    [phase |-> "running", timer |-> TRUE, tunnelOpt |-> FALSE, disc |-> <<>>,
     i |-> 0, it |-> 0, abandoned |-> None, threw |-> None]
NoTunnel ==
    [manager |-> FALSE, active |-> FALSE, pending |-> 0, stopping |-> None,
     emitted |-> <<>>, reply |-> None]
NoTeams == [teams |-> <<>>, created |-> <<>>, now |-> 0]
NoEvents == [emitted |-> <<>>, received |-> <<>>]
NoMerge == [input |-> None, status |-> None]

AdaptersIdle ==
    /\ life = LifeRunning
    /\ tunnel = NoTunnel
    /\ team = NoTeams
    /\ events = NoEvents
    /\ merge = NoMerge

\* the server's state with `slots` rescan callbacks that may be in flight
ServerStateFor(d, sockets, slots, started) ==
    /\ disk = d
    /\ diskEvents = 0
    /\ clock = 0
    /\ inst = started.inst
    /\ projects = started.projects
    /\ passes = [p \in 1..slots |-> IdlePass]
    /\ changes = [h \in 1..MaxChanges |-> IdleChange]
    /\ sock = [c \in 1..sockets |-> "absent"]
    /\ clients = {}
    /\ initials = [c \in 1..sockets |-> IdleInitial]
    /\ out = <<>>
    /\ finished = None
    /\ lastDisc = None
    /\ lastSnap = None
    /\ removedPaths = {}

ServerStartedWith(d, sockets) ==
    /\ ServerStateFor(d, sockets, MaxPasses,
                      StartFrom(DiscoverProjects(d), <<>>, <<>>))
    /\ AdaptersIdle

ServerStarted(d) == ServerStartedWith(d, MaxClients)

Init == ResolverIdle /\ \E d \in Disks : ServerStarted(d)

\* the resolver's variables belong to SpecResolver
Next ==
    \/ \E p \in 1..MaxPasses : RescanTick(p) /\ UNCHANGED restVars
    \/ \E p \in 1..MaxPasses : PassStarted(p) /\ UNCHANGED restVars
    \/ \E p \in 1..MaxPasses : PassAnnounce(p) /\ UNCHANGED restVars
    \/ \E p \in 1..MaxPasses : PassStopped(p) /\ UNCHANGED restVars
    \/ \E p \in 1..MaxPasses : PassRead(p) /\ UNCHANGED restVars
    \/ \E h \in 1..MaxChanges, id \in 1..Len(inst) : WatcherChange(h, id) /\ UNCHANGED restVars
    \/ \E h \in 1..MaxChanges : ChangeRead(h) /\ UNCHANGED restVars
    \/ \E c \in 1..MaxClients : Connect(c) /\ UNCHANGED restVars
    \/ \E c \in 1..MaxClients : InitialProjectsRead(c) /\ UNCHANGED restVars
    \/ \E c \in 1..MaxClients : InitialRead(c) /\ UNCHANGED restVars
    \/ \E c \in 1..MaxClients : SocketClosing(c) /\ UNCHANGED restVars
    \/ \E c \in 1..MaxClients : SocketClose(c) /\ UNCHANGED restVars
    \/ \E w \in Workspaces : WorkspaceRemoved(w) /\ UNCHANGED restVars
    \/ \E w \in Workspaces : WorkspaceCreated(w) /\ UNCHANGED restVars

Spec == Init /\ [][Next]_vars

(***************************************************************************)
(* SpecHub: the fan-out with HubClients sockets, sends that throw, parser  *)
(* reads that reject and the four kinds of watcher events, over a disk     *)
(* that does not change: workspace a alone, with a process attached.       *)
(***************************************************************************)
HubDisk ==
    [w \in Workspaces |->
        [exists |-> (w = "a"), attached |-> (w = "a"), path |-> CanonicalPath(w)]]

HubInit == ResolverIdle /\ ServerStartedWith(HubDisk, HubClients)

HubNext ==
    \/ \E p \in 1..MaxPasses : RescanTick(p) /\ UNCHANGED restVars
    \/ \E p \in 1..MaxPasses : PassRead(p) /\ UNCHANGED restVars
    \/ \E h \in 1..MaxChanges, id \in 1..Len(inst) : WatcherChange(h, id) /\ UNCHANGED restVars
    \/ \E h \in 1..MaxChanges : ChangeRead(h) /\ UNCHANGED restVars
    \/ \E id \in 1..Len(inst), branch \in GitBranches, commit \in GitCommits :
          WatcherGitChange(id, branch, commit) /\ UNCHANGED restVars
    \/ \E id \in 1..Len(inst) : WatcherSteeringChange(id) /\ UNCHANGED restVars
    \/ \E id \in 1..Len(inst) : WatcherBugChange(id) /\ UNCHANGED restVars
    \/ \E c \in 1..HubClients : Connect(c) /\ UNCHANGED restVars
    \/ \E c \in 1..HubClients : InitialProjectsRead(c) /\ UNCHANGED restVars
    \/ \E c \in 1..HubClients : InitialRead(c) /\ UNCHANGED restVars
    \/ \E c \in 1..HubClients : InitialFails(c) /\ UNCHANGED restVars
    \/ \E c \in 1..HubClients : SocketFails(c) /\ UNCHANGED restVars
    \/ \E c \in 1..HubClients : SocketError(c) /\ UNCHANGED restVars
    \/ \E c \in 1..HubClients : SocketClosing(c) /\ UNCHANGED restVars
    \/ \E c \in 1..HubClients : SocketClose(c) /\ UNCHANGED restVars

SpecHub == HubInit /\ [][HubNext]_vars

(***************************************************************************)
(* SpecResolver: the resolver applied to every bounded pair of record      *)
(* lists of one project with a running process.                            *)
(***************************************************************************)
ResolverPath == <<"ws", "app">>
ResolverProject ==
    [path |-> ResolverPath, name |-> "api", hasActiveSession |-> TRUE,
     gitBranch |-> "main", gitCommit |-> Undefined]

ResolverInit ==
    /\ ServerStarted([w \in Workspaces |->
                        [exists |-> FALSE, attached |-> FALSE, path |-> CanonicalPath(w)]])
    /\ rSpecs \in SpecLists
    /\ rBugs \in BugLists
    /\ rSession = None

Resolve ==
    /\ rSession = None
    /\ rSession' = Some(ActiveSessionFor(ResolverPath, ResolverProject, rSpecs, rBugs, clock))
    /\ UNCHANGED <<rSpecs, rBugs>>
    /\ UNCHANGED serverVars
    /\ UNCHANGED adapterVars

ResolverNext == Resolve

SpecResolver == ResolverInit /\ [][ResolverNext]_vars

(***************************************************************************)
(* start() and stop().  life.phase is "starting" while start() initializes *)
(* the discovered projects in turn, "running" once the rescan timer is     *)
(* set, "aborted" when start() has rejected, "stop-watchers",              *)
(* "stop-tunnel" and "stop-app" at the three awaits of stop(), "stopped"   *)
(* when stop() has returned and "stop-failed" when it has rejected.        *)
(***************************************************************************)
LifePasses == 2       \* rescan callbacks in flight at once in SpecLife

\* this.tunnelManager after initializeTunnel (lines 1005-1060)
TunnelStarted == [NoTunnel EXCEPT !.manager = TRUE, !.active = TRUE]

\* line 109, then the first initializeProject of the loop of lines 117-121
LifeStarting(disc, tunnelOpt) ==
    [LifeRunning EXCEPT !.phase = IF disc = <<>> THEN "running" ELSE "starting",
                        !.timer = (disc = <<>>), !.tunnelOpt = tunnelOpt,
                        !.disc = disc, !.i = IF disc = <<>> THEN 0 ELSE 1]

\* watcher.start() of the project being initialized has resolved: lines
\* 627-633, then the next project of the loop, or lines 130-498
StartInitialized ==
    /\ life.phase = "starting"
    /\ LET id == Len(inst)
           last == life.i = Len(life.disc)
           insts == [inst EXCEPT ![id].watcher = "running"]
       IN /\ projects' = MapSet(projects, inst[id].project.path, id)
          /\ inst' = IF last THEN insts
                     ELSE Append(insts, NewInstance(life.disc[life.i + 1]))
          /\ life' = IF last
                     THEN [life EXCEPT !.phase = "running", !.timer = TRUE, !.i = 0]
                     ELSE [life EXCEPT !.i = @ + 1]
          /\ tunnel' = IF last /\ life.tunnelOpt THEN TunnelStarted ELSE tunnel
    /\ out' = <<>>
    /\ finished' = None
    /\ UNCHANGED <<disk, diskEvents, clock, passes, changes, sock, clients, initials,
                   lastDisc, lastSnap, removedPaths>>

\* watcher.start() rejects inside start(): nothing catches it between line
\* 626 and the caller of start()
StartInitFails ==
    /\ life.phase = "starting"
    /\ inst' = [inst EXCEPT ![Len(inst)].watcher = "failed"]
    /\ life' = [life EXCEPT !.phase = "aborted"]
    /\ out' = <<>>
    /\ finished' = None
    /\ UNCHANGED <<disk, diskEvents, clock, projects, passes, changes, sock, clients,
                   initials, lastDisc, lastSnap, removedPaths, tunnel>>

\* watcher.start() rejects inside the rescan callback (line 902): the
\* callback's promise rejects
PassStartFails(p) ==
    /\ passes[p].pc = "starting"
    /\ LET id == passes[p].ref[passes[p].i]
       IN ApplyPass(p, AbortPass(projects, [inst EXCEPT ![id].watcher = "failed"], <<>>))
    /\ life' = [life EXCEPT !.abandoned = Some("init")]
    /\ UNCHANGED <<disk, diskEvents, clock, changes, sock, clients, initials,
                   removedPaths, tunnel>>

\* a parser read of collectActiveSessions rejects inside the rescan callback
\* (lines 683-684 under line 955)
PassReadFails(p) ==
    /\ passes[p].pc = "collect"
    /\ ApplyPass(p, AbortPass(projects, inst, <<>>))
    /\ life' = [life EXCEPT !.abandoned = Some("read")]
    /\ UNCHANGED <<disk, diskEvents, clock, changes, sock, clients, initials,
                   removedPaths, tunnel>>

StopStep(lf, insts, socks, cls) ==
    [life |-> lf, inst |-> insts, sock |-> socks, clients |-> cls]

\* lines 986-991, up to "await this.app.close()": close() is called on every
\* socket with readyState 1 and the set is cleared
StopChannels(lf) ==
    StopStep([lf EXCEPT !.phase = "stop-app"], inst,
             [c \in DOMAIN sock |->
                 IF c \in clients /\ sock[c] \in {"open", "failing"} THEN "closing"
                 ELSE sock[c]],
             {})

\* lines 980-983, up to "await this.tunnelManager.stopTunnel()"
StopTunnel(lf) ==
    IF tunnel.manager THEN StopStep([lf EXCEPT !.phase = "stop-tunnel"], inst, sock, clients)
    ELSE StopChannels(lf)

\* lines 975-978 from iterator position it, up to "await state.watcher.stop()"
StopFrom(it, lf) ==
    LET j == MapNext(projects, it) IN
    IF j = 0 THEN StopTunnel(lf)
    ELSE StopStep([lf EXCEPT !.phase = "stop-watchers", !.it = j],
                  [inst EXCEPT ![projects[j][1].inst].watcher = "stopped"],
                  sock, clients)

ApplyStop(r) ==
    /\ life' = r.life
    /\ inst' = r.inst
    /\ sock' = r.sock
    /\ clients' = r.clients
    /\ out' = <<>>
    /\ finished' = None
    /\ UNCHANGED <<disk, diskEvents, clock, projects, passes, changes, initials,
                   lastDisc, lastSnap, removedPaths>>

\* stop() is called: lines 970-973, then the loop over the registry
StopCalled ==
    /\ life.phase = "running"
    /\ ApplyStop(StopFrom(0, [life EXCEPT !.timer = FALSE]))
    /\ UNCHANGED tunnel

\* a watcher's stop() has resolved: the loop goes on
StopWatcherStopped ==
    /\ life.phase = "stop-watchers"
    /\ ApplyStop(StopFrom(life.it, life))
    /\ UNCHANGED tunnel

\* a watcher's stop() rejects: stop() rejects at line 977
StopWatcherThrows ==
    /\ life.phase = "stop-watchers"
    /\ ApplyStop(StopStep([life EXCEPT !.phase = "stop-failed", !.threw = Some("watcher")],
                          inst, sock, clients))
    /\ UNCHANGED tunnel

\* stopTunnel() has resolved
StopTunnelStopped ==
    /\ life.phase = "stop-tunnel"
    /\ ApplyStop(StopChannels(life))
    /\ tunnel' = [tunnel EXCEPT !.active = FALSE]

\* stopTunnel() rejects: stop() rejects at line 982
StopTunnelThrows ==
    /\ life.phase = "stop-tunnel"
    /\ ApplyStop(StopStep([life EXCEPT !.phase = "stop-failed", !.threw = Some("tunnel")],
                          inst, sock, clients))
    /\ UNCHANGED tunnel

\* app.close() has resolved: stop() returns
StopAppClosed ==
    /\ life.phase = "stop-app"
    /\ ApplyStop(StopStep([life EXCEPT !.phase = "stopped"], inst, sock, clients))
    /\ UNCHANGED tunnel

(***************************************************************************)
(* SpecLife: start(), the running server with LifePasses rescan callbacks, *)
(* initializations and parser reads that reject, and stop().  Workspace a  *)
(* is on disk with a process attached; b may be there or be created.       *)
(***************************************************************************)
LifeDisks ==
    {d \in Disks : /\ d["a"].exists /\ d["a"].attached
                   /\ \A w \in Workspaces : d[w].path = CanonicalPath(w)}

\* start() has discovered the projects and called initializeProject for the
\* first of them
LifeInit ==
    /\ ResolverIdle
    /\ \E d \in LifeDisks, tunnelOpt \in BOOLEAN :
          LET disc == DiscoverProjects(d) IN
          /\ ServerStateFor(d, MaxClients, LifePasses,
                            [projects |-> <<>>, inst |-> <<NewInstance(disc[1])>>])
          /\ life = LifeStarting(disc, tunnelOpt)
    /\ tunnel = NoTunnel
    /\ team = NoTeams
    /\ events = NoEvents
    /\ merge = NoMerge

lifeRest == <<rSpecs, rBugs, rSession, team, events, merge>>

LifeNext ==
    \/ StartInitialized /\ UNCHANGED lifeRest
    \/ StartInitFails /\ UNCHANGED lifeRest
    \/ \E p \in 1..LifePasses : life.timer /\ RescanTick(p) /\ UNCHANGED restVars
    \/ \E p \in 1..LifePasses : PassStarted(p) /\ UNCHANGED restVars
    \/ \E p \in 1..LifePasses : PassStartFails(p) /\ UNCHANGED lifeRest
    \/ \E p \in 1..LifePasses : PassAnnounce(p) /\ UNCHANGED restVars
    \/ \E p \in 1..LifePasses : PassRead(p) /\ UNCHANGED restVars
    \/ \E p \in 1..LifePasses : PassReadFails(p) /\ UNCHANGED lifeRest
    \/ \E c \in 1..MaxClients : life.phase = "running" /\ Connect(c) /\ UNCHANGED restVars
    \/ \E c \in 1..MaxClients : InitialProjectsRead(c) /\ UNCHANGED restVars
    \/ \E c \in 1..MaxClients : InitialRead(c) /\ UNCHANGED restVars
    \/ \E c \in 1..MaxClients : SocketClose(c) /\ UNCHANGED restVars
    \/ life.phase = "running" /\ WorkspaceCreated("b") /\ UNCHANGED restVars
    \/ StopCalled /\ UNCHANGED lifeRest
    \/ StopWatcherStopped /\ UNCHANGED lifeRest
    \/ StopWatcherThrows /\ UNCHANGED lifeRest
    \/ StopTunnelStopped /\ UNCHANGED lifeRest
    \/ StopTunnelThrows /\ UNCHANGED lifeRest
    \/ StopAppClosed /\ UNCHANGED lifeRest

SpecLife == LifeInit /\ [][LifeNext]_vars

(***************************************************************************)
(* The tunnel routes and the relay of the tunnel manager's events.         *)
(* tunnel.manager: this.tunnelManager is set; active: getStatus().active;  *)
(* pending: the startTunnel() calls that have not settled; stopping: a     *)
(* stopTunnel() call has not settled, with getStatus().active as it was    *)
(* when the route was entered; emitted: the events the manager emitted in  *)
(* the last step; reply: the reply of the route that ended in it.          *)
(***************************************************************************)
MaxStarts == 2        \* startTunnel() calls in flight at once

TunnelEventKinds ==
    {"tunnel:started", "tunnel:stopped", "tunnel:metrics:updated",
     "tunnel:visitor:new", "tunnel:recovery:start", "tunnel:recovery:success",
     "tunnel:recovery:failed"}

\* the payloads the manager's events carry; 'tunnel:stopped' may carry none
TunnelPayloads(kind) ==
    IF kind = "tunnel:stopped" THEN {Undefined, "manual"}
    ELSE IF kind = "tunnel:recovery:success" THEN {Undefined}
    ELSE {"payload"}

TunnelEvent(kind, data) == [kind |-> kind, data |-> data]
TunnelReply(route, code, wasActive) ==
    [route |-> route, code |-> code, wasActive |-> wasActive]

\* the listeners of lines 371-413 (and 1014-1047): the messages each hands
\* to broadcast()
TunnelRelay(ev) ==
    IF ev.kind \in {"tunnel:started", "tunnel:metrics:updated"}
    THEN << [type |-> ev.kind, data |-> ev.data] >>
    ELSE IF ev.kind = "tunnel:stopped"
         THEN << [type |-> ev.kind,
                  data |-> IF ev.data = Undefined THEN "{}" ELSE ev.data] >>
         ELSE <<>>

\* the tunnel before a step: what the last step emitted and replied is gone
TunnelQuiet == [tunnel EXCEPT !.emitted = <<>>, !.reply = None]

TunnelStep(t, msgs) ==
    /\ tunnel' = t
    /\ out' = BroadcastAll(msgs)
    /\ finished' = None
    /\ UNCHANGED <<disk, diskEvents, clock, inst, projects, passes, changes, sock,
                   clients, initials, lastDisc, lastSnap, removedPaths>>

\* getTunnelStatus() of lines 1070-1072
GetTunnelStatus == [active |-> tunnel.manager /\ tunnel.active]

\* POST /api/tunnel/start up to its return or its await (lines 362-430)
TunnelStartRequest ==
    /\ tunnel.pending < MaxStarts
    /\ IF GetTunnelStatus.active
       THEN TunnelStep([TunnelQuiet EXCEPT !.reply = Some(TunnelReply("start", 200, TRUE))],
                       <<>>)
       ELSE TunnelStep([TunnelQuiet EXCEPT !.manager = TRUE, !.pending = @ + 1], <<>>)

\* a startTunnel() call resolves: the manager emits 'tunnel:started' and the
\* route returns (lines 431-433)
TunnelStartResolved ==
    /\ tunnel.pending > 0
    /\ LET ev == TunnelEvent("tunnel:started", "payload")
       IN TunnelStep([TunnelQuiet EXCEPT !.pending = @ - 1, !.active = TRUE,
                                         !.emitted = <<ev>>,
                                         !.reply = Some(TunnelReply("start", 200, FALSE))],
                     TunnelRelay(ev))

\* a startTunnel() call rejects (lines 434-438)
TunnelStartFails ==
    /\ tunnel.pending > 0
    /\ TunnelStep([TunnelQuiet EXCEPT !.pending = @ - 1,
                                      !.reply = Some(TunnelReply("start", 500, FALSE))],
                  <<>>)

\* POST /api/tunnel/stop up to its return or its await (lines 441-448)
TunnelStopRequest ==
    /\ tunnel.stopping = None
    /\ IF ~tunnel.manager
       THEN TunnelStep([TunnelQuiet EXCEPT !.reply = Some(TunnelReply("stop", 404, FALSE))],
                       <<>>)
       ELSE TunnelStep([TunnelQuiet EXCEPT !.stopping = Some(tunnel.active)], <<>>)

\* stopTunnel() resolves: the manager emits 'tunnel:stopped' when it stopped
\* a tunnel, then the route broadcasts its own message (lines 450-456)
TunnelStopResolved(data) ==
    /\ tunnel.stopping # None
    /\ LET evs == IF tunnel.active THEN <<TunnelEvent("tunnel:stopped", data)>> ELSE <<>>
           relayed == IF evs = <<>> THEN <<>> ELSE TunnelRelay(evs[1])
       IN TunnelStep([TunnelQuiet EXCEPT
                         !.active = FALSE, !.stopping = None, !.emitted = evs,
                         !.reply = Some(TunnelReply("stop", 200, tunnel.stopping[1]))],
                     relayed \o << [type |-> "tunnel:stopped", data |-> "{}"] >>)

\* stopTunnel() rejects (lines 457-460)
TunnelStopFails ==
    /\ tunnel.stopping # None
    /\ TunnelStep([TunnelQuiet EXCEPT
                      !.stopping = None,
                      !.reply = Some(TunnelReply("stop", 500, tunnel.stopping[1]))],
                  <<>>)

\* the manager emits an event of a running tunnel
TunnelEmits(kind, data) ==
    /\ tunnel.manager /\ tunnel.active
    /\ LET ev == TunnelEvent(kind, data)
       IN TunnelStep([TunnelQuiet EXCEPT !.emitted = <<ev>>], TunnelRelay(ev))

(***************************************************************************)
(* SpecTunnel: the tunnel routes called in any order, with start requests  *)
(* that overlap, the manager's events and a viewer that connects.  The     *)
(* server was started with or without options.tunnel.                      *)
(***************************************************************************)
TunnelInit ==
    /\ ResolverIdle
    /\ ServerStateFor(HubDisk, MaxClients, MaxPasses,
                      StartFrom(DiscoverProjects(HubDisk), <<>>, <<>>))
    /\ life \in {LifeRunning, [LifeRunning EXCEPT !.tunnelOpt = TRUE]}
    /\ tunnel = IF life.tunnelOpt THEN TunnelStarted ELSE NoTunnel
    /\ team = NoTeams
    /\ events = NoEvents
    /\ merge = NoMerge

tunnelRest == <<rSpecs, rBugs, rSession, life, team, events, merge>>

\* a step of a viewer's socket between two steps of the tunnel
ViewerStep == tunnel' = TunnelQuiet /\ UNCHANGED tunnelRest

TunnelNext ==
    \/ TunnelStartRequest /\ UNCHANGED tunnelRest
    \/ TunnelStartResolved /\ UNCHANGED tunnelRest
    \/ TunnelStartFails /\ UNCHANGED tunnelRest
    \/ TunnelStopRequest /\ UNCHANGED tunnelRest
    \/ \E data \in TunnelPayloads("tunnel:stopped") :
          TunnelStopResolved(data) /\ UNCHANGED tunnelRest
    \/ TunnelStopFails /\ UNCHANGED tunnelRest
    \/ \E kind \in TunnelEventKinds \ {"tunnel:started", "tunnel:stopped"} :
          \E data \in TunnelPayloads(kind) : TunnelEmits(kind, data) /\ UNCHANGED tunnelRest
    \/ \E c \in 1..MaxClients : Connect(c) /\ ViewerStep
    \/ \E c \in 1..MaxClients : InitialProjectsRead(c) /\ ViewerStep
    \/ \E c \in 1..MaxClients : InitialRead(c) /\ ViewerStep
    \/ \E c \in 1..MaxClients : SocketClosing(c) /\ ViewerStep
    \/ \E c \in 1..MaxClients : SocketClose(c) /\ ViewerStep

SpecTunnel == TunnelInit /\ [][TunnelNext]_vars

(***************************************************************************)
(* TeamManager (src/README.md): team.teams is the Map of teams as its      *)
(* entry list, team.now is Date.now() in milliseconds and team.created     *)
(* lists the teams createTeam has returned.                                *)
(***************************************************************************)
MaxTeams == 3         \* calls of createTeam
MaxMillis == 1        \* Date.now() is 0..MaxMillis

TeamNames == {"core", "web"}
\* Math.random().toString(36).substr(2, 9)
RandomDraws == {"4fzzzxjyl", "k3x9"}

\* generateTeamId(): `team_${Date.now()}_${Math.random()...}`
GenerateTeamId(now, draw) == <<"team", now, draw>>

TeamHas(teams, id) == \E k \in 1..Len(teams) : teams[k].id = id
\* Map.set: a new key is appended, an existing key keeps its place
TeamSet(teams, id, t) ==
    IF TeamHas(teams, id)
    THEN [k \in 1..Len(teams) |-> IF teams[k].id = id THEN t ELSE teams[k]]
    ELSE Append(teams, t)

\* getTeam(teamId): the team, or undefined
GetTeam(id) ==
    IF TeamHas(team.teams, id)
    THEN Some(team.teams[CHOOSE k \in 1..Len(team.teams) : team.teams[k].id = id])
    ELSE None

\* getAllTeams(): Array.from(this.teams.values())
GetAllTeams == team.teams

\* createTeam(name, githubOrg), with the value Math.random() yields
CreateTeam(name, githubOrg, draw) ==
    /\ Len(team.created) < MaxTeams
    /\ LET t == [id |-> GenerateTeamId(team.now, draw), name |-> name,
                 githubOrg |-> githubOrg, members |-> <<>>,
                 createdAt |-> team.now, updatedAt |-> team.now]
       IN team' = [team EXCEPT !.teams = TeamSet(@, t.id, t),
                               !.created = Append(@, t)]

\* a millisecond passes
TeamClockTick ==
    /\ team.now < MaxMillis
    /\ team' = [team EXCEPT !.now = @ + 1]

TeamsInit ==
    /\ ServerStarted([w \in Workspaces |->
                        [exists |-> FALSE, attached |-> FALSE, path |-> CanonicalPath(w)]])
    /\ ResolverIdle

teamRest == <<rSpecs, rBugs, rSession, life, tunnel, events, merge>>

TeamsNext ==
    \/ \E name \in TeamNames, draw \in RandomDraws :
          CreateTeam(name, "org", draw) /\ UNCHANGED serverVars /\ UNCHANGED teamRest
    \/ TeamClockTick /\ UNCHANGED serverVars /\ UNCHANGED teamRest

SpecTeams == TeamsInit /\ [][TeamsNext]_vars

(***************************************************************************)
(* SpecOrder: the watcher of workspace a emits one event of each kind, in  *)
(* any order, while HubClients viewers connect and leave.  events.emitted  *)
(* lists the kinds in the order of emission; events.received lists, for    *)
(* each socket, the types of the typed messages delivered on it.           *)
(***************************************************************************)
MaxEmitted == 2       \* watcher events emitted in SpecOrder

WatcherEventKinds == {"change", "git-change", "steering-change", "bug-change"}

\* the type of the message each handler translates its event into
TypedMessageOf(kind) ==
    CASE kind = "change" -> "project-update"
      [] kind = "git-change" -> "git-update"
      [] kind = "steering-change" -> "steering-update"
      [] kind = "bug-change" -> "bug-update"

\* the types of the typed messages that outs delivers on socket c
TypedTo(c, outs) ==
    LET types == [k \in 1..Len(outs) |->
                     IF c \in outs[k].to THEN outs[k].msg.type ELSE "none"]
    IN SelectSeq(types, LAMBDA t : t \in {TypedMessageOf(kind) : kind \in WatcherEventKinds})

\* the step has emitted `kinds` and delivered the messages of out'
Recorded(kinds) ==
    /\ Len(events.emitted) + Len(kinds) <= MaxEmitted
    /\ \A k \in 1..Len(kinds) : kinds[k] \notin Elements(events.emitted)
    /\ events' = [emitted |-> events.emitted \o kinds,
                  received |-> [c \in DOMAIN events.received |->
                                   events.received[c] \o TypedTo(c, out')]]
    /\ UNCHANGED <<rSpecs, rBugs, rSession, life, tunnel, team, merge>>

OrderInit ==
    /\ ResolverIdle
    /\ ServerStateFor(HubDisk, HubClients, MaxPasses,
                      StartFrom(DiscoverProjects(HubDisk), <<>>, <<>>))
    /\ life = LifeRunning
    /\ tunnel = NoTunnel
    /\ team = NoTeams
    /\ events = [emitted |-> <<>>, received |-> [c \in 1..HubClients |-> <<>>]]
    /\ merge = NoMerge

OrderNext ==
    \/ \E h \in 1..MaxChanges, id \in 1..Len(inst) :
          WatcherChange(h, id) /\ Recorded(<<"change">>)
    \/ \E h \in 1..MaxChanges : ChangeRead(h) /\ Recorded(<<>>)
    \/ \E id \in 1..Len(inst), branch \in GitBranches, commit \in GitCommits :
          WatcherGitChange(id, branch, commit) /\ Recorded(<<"git-change">>)
    \/ \E id \in 1..Len(inst) : WatcherSteeringChange(id) /\ Recorded(<<"steering-change">>)
    \/ \E id \in 1..Len(inst) : WatcherBugChange(id) /\ Recorded(<<"bug-change">>)
    \/ \E c \in 1..HubClients : Connect(c) /\ Recorded(<<>>)
    \/ \E c \in 1..HubClients : InitialProjectsRead(c) /\ Recorded(<<>>)
    \/ \E c \in 1..HubClients : InitialRead(c) /\ Recorded(<<>>)
    \/ \E c \in 1..HubClients : SocketClosing(c) /\ Recorded(<<>>)
    \/ \E c \in 1..HubClients : SocketClose(c) /\ Recorded(<<>>)

SpecOrder == OrderInit /\ [][OrderNext]_vars

(***************************************************************************)
(* SpecFrame: the four watcher handlers of two registered workspaces, and  *)
(* a viewer.  events.emitted holds the event the last step has handled.    *)
(***************************************************************************)
WatcherEvent(kind, id, branch, commit) ==
    [kind |-> kind, id |-> id, branch |-> branch, commit |-> commit]

\* the step has handled the events evs
Handled(evs) ==
    /\ events' = [events EXCEPT !.emitted = evs]
    /\ UNCHANGED <<rSpecs, rBugs, rSession, life, tunnel, team, merge>>

FrameDisks == {d \in LifeDisks : d["b"].exists}

FrameInit == ResolverIdle /\ \E d \in FrameDisks : ServerStarted(d)

FrameNext ==
    \/ \E h \in 1..MaxChanges, id \in 1..Len(inst) :
          WatcherChange(h, id) /\ Handled(<<WatcherEvent("change", id, Undefined, Undefined)>>)
    \/ \E h \in 1..MaxChanges : ChangeRead(h) /\ Handled(<<>>)
    \/ \E id \in 1..Len(inst), branch \in GitBranches, commit \in GitCommits :
          WatcherGitChange(id, branch, commit)
              /\ Handled(<<WatcherEvent("git-change", id, branch, commit)>>)
    \/ \E id \in 1..Len(inst) :
          WatcherSteeringChange(id)
              /\ Handled(<<WatcherEvent("steering-change", id, Undefined, Undefined)>>)
    \/ \E id \in 1..Len(inst) :
          WatcherBugChange(id)
              /\ Handled(<<WatcherEvent("bug-change", id, Undefined, Undefined)>>)
    \/ \E c \in 1..MaxClients : Connect(c) /\ Handled(<<>>)
    \/ \E c \in 1..MaxClients : InitialProjectsRead(c) /\ Handled(<<>>)
    \/ \E c \in 1..MaxClients : InitialRead(c) /\ Handled(<<>>)

SpecFrame == FrameInit /\ [][FrameNext]_vars

(***************************************************************************)
(* PRWorkflowManager.checkMergeReadiness (collaboration/pr-workflow.ts).   *)
(* The git collaborator is an input: what its commands print, and whether  *)
(* they reject.  A diff prints one file name per line; a raw command       *)
(* prints a hash, with or without the end of line.                         *)
(***************************************************************************)
MaxLines == 2         \* lines a diff prints

FileNames == {"a.ts", "b.ts"}
DiffOutputs == UNION {[1..n -> FileNames \cup {" "}] : n \in 0..MaxLines}
RawOutputs == UNION {{<<c>>, <<c, "\n">>} : c \in {"c0", "c1"}}

\* a pull request, and a value that has no head
PullRequests ==
    { [head |-> Some([ref |-> "feature"]), base |-> Some([ref |-> "main"])],
      [head |-> None, base |-> Some([ref |-> "main"])] }

MergeInputs ==
    [pr : PullRequests, diffThrows : BOOLEAN, headFiles : DiffOutputs,
     baseFiles : DiffOutputs, fetchThrows : BOOLEAN, mergeBase : RawOutputs,
     baseCommit : RawOutputs]

\* String.prototype.trim of what a raw command prints
Trim(raw) == IF raw[Len(raw)] = "\n" THEN SubSeq(raw, 1, Len(raw) - 1) ELSE raw

\* split('\n').filter(f => f.trim())
FilesOf(output) == SelectSeq(output, LAMBDA f : f # " ")

\* riskLevel and suggestions are not read by checkMergeReadiness
DetectPotentialConflicts(input) ==
    IF input.diffThrows
    THEN [hasConflicts |-> FALSE, conflictingFiles |-> <<>>]
    ELSE LET files1 == FilesOf(input.headFiles)
             files2 == FilesOf(input.baseFiles)
             conflictingFiles == SelectSeq(files1, LAMBDA f : f \in Elements(files2))
         IN [hasConflicts |-> Len(conflictingFiles) > 0,
             conflictingFiles |-> conflictingFiles]

IsBranchUpToDate(input) ==
    IF input.fetchThrows THEN FALSE
    ELSE Trim(input.mergeBase) = Trim(input.baseCommit)

NewMergeStatus ==
    [ready |-> FALSE, blockers |-> <<>>,
     checks |-> [hasApprovals |-> FALSE, ciPassing |-> FALSE, noConflicts |-> FALSE,
                 branchUpToDate |-> FALSE]]

\* a readiness that does not look at the base branch
CheckMergeReadinessIgnoringBase(input) ==
    IF input.pr.head = None \/ input.pr.base = None
    THEN [NewMergeStatus EXCEPT !.blockers = <<<<"Error checking merge status", "TypeError">>>>]
    ELSE LET conflicts == DetectPotentialConflicts(input)
             isUpToDate == IsBranchUpToDate(input)
         IN [ready |-> ~conflicts.hasConflicts,
             blockers |->
                 (IF conflicts.hasConflicts
                  THEN <<<<"Merge conflicts detected in", conflicts.conflictingFiles>>>>
                  ELSE <<>>)
                 \o (IF ~isUpToDate
                     THEN <<<<"Branch is behind", input.pr.head[1].ref, input.pr.base[1].ref>>>>
                     ELSE <<>>),
             checks |-> [hasApprovals |-> TRUE, ciPassing |-> TRUE,
                         noConflicts |-> ~conflicts.hasConflicts,
                         branchUpToDate |-> isUpToDate]]

\* pr.head.ref of a value without head throws inside the try block, before
\* any check has run
CheckMergeReadiness(input) ==
    IF input.pr.head = None \/ input.pr.base = None
    THEN [NewMergeStatus EXCEPT !.blockers = <<<<"Error checking merge status", "TypeError">>>>]
    ELSE LET conflicts == DetectPotentialConflicts(input)
             isUpToDate == IsBranchUpToDate(input)
             checks == [hasApprovals |-> TRUE, ciPassing |-> TRUE,
                        noConflicts |-> ~conflicts.hasConflicts,
                        branchUpToDate |-> isUpToDate]
         IN [ready |-> checks.hasApprovals /\ checks.ciPassing
                           /\ checks.noConflicts /\ checks.branchUpToDate,
             blockers |->
                 (IF conflicts.hasConflicts
                  THEN <<<<"Merge conflicts detected in", conflicts.conflictingFiles>>>>
                  ELSE <<>>)
                 \o (IF ~isUpToDate
                     THEN <<<<"Branch is behind", input.pr.head[1].ref, input.pr.base[1].ref>>>>
                     ELSE <<>>),
             checks |-> checks]

MergeInit ==
    /\ ResolverIdle
    /\ ServerStateFor([w \in Workspaces |->
                          [exists |-> FALSE, attached |-> FALSE, path |-> CanonicalPath(w)]],
                      MaxClients, MaxPasses, [projects |-> <<>>, inst |-> <<>>])
    /\ life = LifeRunning
    /\ tunnel = NoTunnel
    /\ team = NoTeams
    /\ events = NoEvents
    /\ merge \in [input : {Some(input) : input \in MergeInputs}, status : {None}]

MergeChecked ==
    /\ merge.status = None
    /\ merge' = [merge EXCEPT !.status = Some(CheckMergeReadiness(merge.input[1]))]
    /\ UNCHANGED <<rSpecs, rBugs, rSession, life, tunnel, team, events>>
    /\ UNCHANGED serverVars

MergeNext == MergeChecked

SpecMerge == MergeInit /\ [][MergeNext]_vars

(***************************************************************************)
(* What was sent: the properties below read the messages of the last step  *)
(* against the state in which they were sent.                              *)
(***************************************************************************)
Delivered == {out[k].msg : k \in {h \in 1..Len(out) : out[h].to # {}}}

SnapshotsSent ==
    {m.data : m \in {x \in Delivered : x.type = "active-sessions-update"}}
        \cup {m.activeSessions : m \in {x \in Delivered : x.type = "initial"}}

SessionPaths(sessions) == {sessions[i].projectPath : i \in 1..Len(sessions)}

\* the project paths a message refers to
PathsOf(m) ==
    CASE m.type = "active-sessions-update" -> SessionPaths(m.data)
      [] m.type = "initial" ->
            SessionPaths(m.activeSessions)
                \cup {m.data[k].project.path : k \in 1..Len(m.data)}
      [] m.type = "new-project" -> {m.data.project.path}
      [] m.type = "remove-project" -> {m.data.path}
      [] OTHER -> {m.projectPath}

DiscoveredPaths(ps) == {NormalizePath(ps.disc[k].path) : k \in 1..Len(ps.disc)}
OnceEach(seq) == \A i, j \in 1..Len(seq) : seq[i] = seq[j] => i = j

TaskInProgress(spec) == spec.tasks # None /\ spec.tasks[1].inProgress # Undefined
AnySpecInProgress == \E i \in 1..Len(rSpecs) : TaskInProgress(rSpecs[i])
AnyBugActive ==
    \E j \in 1..Len(rBugs) : rBugs[j].status \in {"analyzing", "fixing", "verifying"}

(***************************************************************************)
(* C1: in every active-session snapshot sent (an 'initial' or an           *)
(* 'active-sessions-update'), no two entries have the same projectPath and *)
(* there are no more entries than registered workspaces.                   *)
(***************************************************************************)
OneSessionPerWorkspace ==
    \A sessions \in SnapshotsSent :
        /\ \A i, j \in 1..Len(sessions) :
              sessions[i].projectPath = sessions[j].projectPath => i = j
        /\ Len(sessions) <= Cardinality(MapKeys(projects))

\* the runs of collectActiveSessions suspended on a parser read
Collecting ==
    {passes[p].col : p \in {q \in 1..MaxPasses : passes[q].pc = "collect"}}
        \cup {changes[h].col : h \in {g \in 1..MaxChanges : changes[g].pc = "collect"}}
        \cup {initials[c].col : c \in {b \in 1..MaxClients : initials[b].pc = "collect"}}

\* some project object made for path carries the flag
FlaggedSomewhere(path) ==
    \E id \in 1..Len(inst) :
        inst[id].project.path = path /\ inst[id].project.hasActiveSession

SpecBeatsBug ==
    (rSession # None /\ AnySpecInProgress /\ AnyBugActive) =>
        /\ rSession[1].type = "spec"
        /\ \E i \in 1..Len(rSpecs) :
              rSpecs[i].name = rSession[1].specName /\ TaskInProgress(rSpecs[i])

\* the spec wins although an active bug is more recent than every spec
SpecBeatsNewerBugWitness ==
    /\ rSession # None
    /\ AnySpecInProgress
    /\ rSession[1].type = "spec"
    /\ \E j \in 1..Len(rBugs) :
          /\ rBugs[j].status = "fixing"
          /\ \A i \in 1..Len(rSpecs) :
                OrEpoch(rBugs[j].lastModified) > OrEpoch(rSpecs[i].lastModified)

\* the session selected is of a fallback candidate
FallbackSelected ==
    /\ rSession # None
    /\ \/ /\ rSession[1].type = "spec"
          /\ \E i \in 1..Len(rSpecs) :
                rSpecs[i].name = rSession[1].specName /\ ~TaskInProgress(rSpecs[i])
       \/ /\ rSession[1].type = "bug"
          /\ rSession[1].bugStatus \in {"reported", "fixed"}

(***************************************************************************)
(* C4: a fallback candidate (a spec without an in-progress task, a bug in  *)
(* reported or fixed) is selected only if the project has no spec with an  *)
(* in-progress task and no bug in analyzing, fixing or verifying.          *)
(***************************************************************************)
FallbackOnlyWithoutActiveWork ==
    FallbackSelected => (~AnySpecInProgress /\ ~AnyBugActive)

\* a fixed bug is selected next to a completed spec and a resolved bug
FallbackWitness ==
    /\ FallbackSelected
    /\ rSession[1].type = "bug"
    /\ rSession[1].bugStatus = "fixed"
    /\ Len(rSpecs) > 0
    /\ Len(rBugs) = 2

\* nothing is left even for the fallback
NoCandidate ==
    /\ ~AnySpecInProgress
    /\ ~AnyBugActive
    /\ \A i \in 1..Len(rSpecs) : rSpecs[i].status = "completed"
    /\ \A j \in 1..Len(rBugs) : rBugs[j].status = "resolved"

(***************************************************************************)
(* C5: with no candidate even after the fallback the project yields the    *)
(* spec-variant session marked isAdHoc with the placeholder task           *)
(* 'session'; a session chosen from a spec or a bug is never marked.       *)
(***************************************************************************)
AdHocExactlyWhenNoCandidate ==
    rSession # None =>
        IF NoCandidate
        THEN /\ rSession[1].type = "spec"
             /\ IsAdHoc(rSession[1])
             /\ rSession[1].task.id = "session"
             /\ rSession[1].task.completed = FALSE
             /\ rSession[1].projectPath = ResolverPath
        ELSE /\ ~IsAdHoc(rSession[1])
             /\ \/ rSession[1].type = "spec" /\
                   \E i \in 1..Len(rSpecs) : rSpecs[i].name = rSession[1].specName
                \/ rSession[1].type = "bug" /\
                   \E j \in 1..Len(rBugs) : rBugs[j].name = rSession[1].bugName

\* the ad-hoc session of a project whose only records are in a final state
AdHocWitness ==
    /\ rSession # None
    /\ IsAdHoc(rSession[1])
    /\ Len(rSpecs) > 0
    /\ Len(rBugs) > 0

(***************************************************************************)
(* C6: every active-session list sent is sorted: the entries with          *)
(* isCurrentlyActive first, and within each group by ascending project     *)
(* name.                                                                   *)
(***************************************************************************)
SnapshotsSorted ==
    \A sessions \in SnapshotsSent :
        \A i, j \in 1..Len(sessions) :
            i < j =>
                /\ sessions[j].isCurrentlyActive => sessions[i].isCurrentlyActive
                /\ sessions[i].isCurrentlyActive = sessions[j].isCurrentlyActive
                      => CollationRank(sessions[i].projectName)
                             <= CollationRank(sessions[j].projectName)

\* two sessions go out in the order of their names, against the order of
\* their entries in the Map
SortedAgainstMapOrderWitness ==
    \E sessions \in SnapshotsSent :
        /\ Len(sessions) = 2
        /\ sessions[1].projectPath # sessions[2].projectPath
        /\ MapHas(projects, sessions[1].projectPath)
        /\ MapHas(projects, sessions[2].projectPath)
        /\ SlotOf(projects, sessions[2].projectPath)
               < SlotOf(projects, sessions[1].projectPath)

(***************************************************************************)
(* C7: a rescan that discovers what the rescan before it discovered        *)
(* broadcasts no 'new-project' and no 'remove-project' and starts no       *)
(* watcher, in whatever form discovery reports the paths.                  *)
(***************************************************************************)
RescanIdempotent ==
    (finished # None /\ finished[1].prevDisc = Some(finished[1].disc)) =>
        /\ finished[1].added = <<>>
        /\ finished[1].removed = <<>>
        /\ finished[1].started = 0

(***************************************************************************)
(* C8: two consecutive rescans with nothing changed in between broadcast   *)
(* the same active-sessions-update payload, lastModified included.         *)
(***************************************************************************)
SnapshotStable ==
    (finished # None /\ finished[1].prevSnap # None /\ finished[1].clean) =>
        finished[1].snap = finished[1].prevSnap

(***************************************************************************)
(* C9: a rescan that has run to completion has broadcast one 'new-project' *)
(* for each discovered path that was not registered, one 'remove-project'  *)
(* for each registered path no longer discovered, and leaves the registry  *)
(* with exactly the discovered paths as keys.                              *)
(***************************************************************************)
RescanReconciles ==
    finished # None =>
        LET ps == finished[1] IN
        /\ OnceEach(ps.added)
        /\ Elements(ps.added) = DiscoveredPaths(ps) \ ps.keys0
        /\ OnceEach(ps.removed)
        /\ Elements(ps.removed) = ps.keys0 \ DiscoveredPaths(ps)
        /\ MapKeys(projects) = DiscoveredPaths(ps)

(***************************************************************************)
(* C10: the rescan that no longer discovers a registered workspace removes *)
(* it, and once its 'remove-project' is broadcast no message sent refers   *)
(* to that path (until it is registered again).                            *)
(***************************************************************************)
NoReferenceAfterRemoval ==
    /\ finished # None =>
          \A key \in finished[1].keys0 \ DiscoveredPaths(finished[1]) :
              key \in Elements(finished[1].removed) /\ ~MapHas(projects, key)
    /\ \A m \in Delivered :
          m.type # "remove-project" => PathsOf(m) \cap removedPaths = {}

\* the registry's handles: the initializeProject calls its entries hold
RegistryHandles == {projects[j][1].inst : j \in Live(projects)}

(***************************************************************************)
(* C11: the active-sessions-update a completed rescan broadcasts reflects  *)
(* the attached-process flags that rescan discovered: it has a session     *)
(* for a discovered workspace exactly if discovery reported it with the    *)
(* flag set.                                                               *)
(***************************************************************************)
SnapshotFollowsDiscovery ==
    finished # None =>
        \A k \in 1..Len(finished[1].disc) :
            LET project == finished[1].disc[k] IN
            (NormalizePath(project.path) \in SessionPaths(finished[1].snap[1]))
                <=> project.hasActiveSession

InitialComesFirst ==
    \A k \in 1..Len(out) :
        \A c \in out[k].to :
            out[k].msg.type # "initial" => initials[c].pc = "done"

(***************************************************************************)
(* C15: an 'initial' message is a cut of one registry state: every session *)
(* of its activeSessions is of a project of its data, and every project of *)
(* its data that carries the flag has a session.                           *)
(***************************************************************************)
InitialIsOneCut ==
    \A m \in {x \in Delivered : x.type = "initial"} :
        LET listed == {m.data[k].project : k \in 1..Len(m.data)} IN
        /\ SessionPaths(m.activeSessions) \subseteq {project.path : project \in listed}
        /\ \A project \in listed :
              project.hasActiveSession => project.path \in SessionPaths(m.activeSessions)

(***************************************************************************)
(* C20: the running watchers are the registry's handles: a watcher that    *)
(* was started and is not the one its path is registered with has been     *)
(* stopped.                                                                *)
(***************************************************************************)
RunningWatchersAreRegistered ==
    \A id \in 1..Len(inst) :
        inst[id].watcher = "running" => id \in RegistryHandles

\* the messages translated from watcher events
TypedUpdates == {"project-update", "git-update", "steering-update", "bug-update"}

(***************************************************************************)
(* C13: a handler that has broadcast the message translated from a watcher *)
(* event (of any of the four kinds) goes on to recompute the active        *)
(* sessions: the snapshot follows in the same step, or the handler is      *)
(* suspended in collectActiveSessions.                                     *)
(***************************************************************************)
EveryEventRecomputes ==
    \A k \in 1..Len(out) :
        (out[k].msg.type \in TypedUpdates /\ out[k].threw = None) =>
            \/ \E j \in (k + 1)..Len(out) : out[j].msg.type = "active-sessions-update"
            \/ \E h \in DOMAIN changes : changes[h].pc = "collect"

(***************************************************************************)
(* C16: a socket that is open has been sent its 'initial' message or its   *)
(* sendInitialState is still at work: the handler never ends without       *)
(* sending, also when a parser read fails, and it never sends twice.       *)
(***************************************************************************)
InitialAlwaysSent ==
    /\ \A c \in DOMAIN sock : sock[c] = "open" => initials[c].pc # "failed"
    /\ \A j, k \in 1..Len(out) :
          (out[j].msg.type = "initial" /\ out[k].msg.type = "initial") => j = k

(***************************************************************************)
(* C17: a socket whose send() has thrown is no longer in this.clients when *)
(* the broadcasting step is over.                                          *)
(***************************************************************************)
ThrowingSocketRemoved ==
    \A k \in 1..Len(out) : out[k].threw # None => out[k].threw[1] \notin clients

(***************************************************************************)
(* C18: a message that is broadcast reaches every open socket of           *)
(* this.clients, also when the send() of another socket throws.            *)
(***************************************************************************)
FanOutReachesEveryOpenSocket ==
    \A k \in 1..Len(out) : out[k].msg.type # "initial" => OpenClients \subseteq out[k].to

(***************************************************************************)
(* C19: send() is called only on sockets whose readyState is 1 when the    *)
(* message is sent, the 'initial' message included.                        *)
(***************************************************************************)
SendsOnlyOnOpenSockets ==
    \A k \in 1..Len(out) : \A c \in out[k].tried : sock[c] \in {"open", "failing"}

(***************************************************************************)
(* start(), the rescan callback and stop() when a step of theirs fails.    *)
(***************************************************************************)
FailedInits == {id \in 1..Len(inst) : inst[id].watcher = "failed"}
PassesInFlight == {p \in DOMAIN passes : InFlight(passes[p])}
RunningRegistered ==
    {j \in Live(projects) : inst[projects[j][1].inst].watcher = "running"}
LiveSockets == {c \in DOMAIN sock : sock[c] \in {"open", "failing"}}

\* C21: when the initialization of a discovered workspace has thrown, that
\* workspace is not in the registry, start() has not been aborted and no
\* rescan pass has been abandoned because of it, so that the other
\* discovered workspaces are still initialized and registered.
InitFailureIsLocal ==
    FailedInits # {} =>
        /\ FailedInits \cap RegistryHandles = {}
        /\ life.phase # "aborted"
        /\ life.abandoned # Some("init")

\* C22: once stop() has returned, the rescan timer is cancelled, no
\* registered notifier is running, the registry is empty, the set of viewer
\* channels is empty and no channel is open.
StopLeavesNothing ==
    life.phase = "stopped" =>
        /\ ~life.timer
        /\ RunningRegistered = {}
        /\ Live(projects) = {}
        /\ clients = {}
        /\ LiveSockets = {}

\* C27: at most one rescan pass is in progress at any time.
OnePassAtATime == Cardinality(PassesInFlight) <= 1

\* C29: no rescan pass is abandoned because a parser read failed while its
\* snapshot was computed: the pass still broadcasts its snapshot.
ReadFailureIsLocal == life.abandoned # Some("read")

\* C30: when a step of stop() has thrown, every other teardown step has
\* still been executed: the timer is cancelled, no registered notifier is
\* running, the tunnel is stopped, the set of viewer channels is empty and
\* no channel is open.
StopRunsEveryStep ==
    life.phase = "stop-failed" =>
        /\ ~life.timer
        /\ RunningRegistered = {}
        /\ (life.threw # Some("tunnel") => ~tunnel.active)
        /\ clients = {}
        /\ LiveSockets = {}

(***************************************************************************)
(* The tunnel routes.                                                      *)
(***************************************************************************)
TunnelMessages ==
    SelectSeq([k \in 1..Len(out) |-> out[k].msg], LAMBDA m : m.type \in TunnelEventKinds)
EmittedAsMessages ==
    [k \in 1..Len(tunnel.emitted) |->
        [type |-> tunnel.emitted[k].kind, data |-> tunnel.emitted[k].data]]

\* C23: the tunnel manager's start is never invoked while a tunnel is active
\* or another start is in flight: there is at most one tunnel started or
\* being started.
OneTunnelStart == tunnel.pending + (IF tunnel.active THEN 1 ELSE 0) <= 1

\* C24: a stop request made while no tunnel is active ends without an error
\* reply and broadcasts no tunnel message.
StopWithoutTunnelIsNoOp ==
    (tunnel.reply # None /\ tunnel.reply[1].route = "stop" /\ ~tunnel.reply[1].wasActive) =>
        /\ tunnel.reply[1].code = 200
        /\ TunnelMessages = <<>>

\* C25: the tunnel messages broadcast in a step are the events the tunnel
\* manager emitted in that step, one message per event, in order, each with
\* the event's kind and its payload unchanged.
EventsRelayedVerbatim == TunnelMessages = EmittedAsMessages

(***************************************************************************)
(* The team manager.                                                       *)
(***************************************************************************)
\* C26: getAllTeams returns exactly the teams created, getTeam(id) returns
\* the team created with that id for each of them, no two teams created
\* share an id, and every team has no member.
TeamsAreKept ==
    /\ Len(GetAllTeams) = Len(team.created)
    /\ Elements(GetAllTeams) = Elements(team.created)
    /\ \A k \in 1..Len(team.created) : GetTeam(team.created[k].id) = Some(team.created[k])
    /\ \A j, k \in 1..Len(team.created) :
          team.created[j].id = team.created[k].id => j = k
    /\ \A k \in 1..Len(GetAllTeams) : GetAllTeams[k].members = <<>>

(***************************************************************************)
(* The order of the typed messages.                                        *)
(***************************************************************************)
EventOf(type) == CHOOSE kind \in WatcherEventKinds : TypedMessageOf(kind) = type
EmittedAt(kind) == CHOOSE k \in 1..Len(events.emitted) : events.emitted[k] = kind

\* C28: on every viewer's socket the typed messages arrive in the order in
\* which the watcher emitted the events they are translated from: each is
\* translated from an emitted event, and of two of them the one received
\* first is that of the event emitted first.
PushEventsInOrder ==
    \A c \in DOMAIN events.received :
        LET got == events.received[c] IN
        /\ \A i \in 1..Len(got) : EventOf(got[i]) \in Elements(events.emitted)
        /\ \A i, j \in 1..Len(got) :
              i < j => EmittedAt(EventOf(got[i])) < EmittedAt(EventOf(got[j]))

\* a viewer has received the typed messages of a 'change' event and of a
\* later event, the second while the 'change' handler was still in
\* collectActiveSessions
TwoEventsReceivedWitness ==
    \E c \in DOMAIN events.received :
        /\ Len(events.received[c]) >= 2
        /\ events.received[c][1] = "project-update"
        /\ \E h \in 1..MaxChanges : changes[h].pc = "collect"

(***************************************************************************)
(* The resolver's choice, stated on the parser's records.                  *)
(***************************************************************************)
\* the time of a record, one without lastModified counting as the epoch
StampOf(record) == IF record.lastModified = None THEN 0 ELSE record.lastModified[1]

Candidates == ActiveWorkItems(rSpecs, rBugs)

\* the positions in Candidates of the candidates of the highest priority
TopCandidates ==
    {k \in 1..Len(Candidates) :
        \A j \in 1..Len(Candidates) : Candidates[j].priority <= Candidates[k].priority}

\* the latest of them
LatestTopCandidates ==
    {k \in TopCandidates :
        \A j \in TopCandidates : StampOf(Candidates[j].item) <= StampOf(Candidates[k].item)}

\* the session is the one of the candidate at position k
SelectedIs(k) ==
    /\ rSession # None
    /\ rSession[1].type = Candidates[k].type
    /\ ~IsAdHoc(rSession[1])
    /\ IF Candidates[k].type = "spec"
       THEN rSession[1].specName = Candidates[k].item.name
       ELSE rSession[1].bugName = Candidates[k].item.name

(***************************************************************************)
(* C31: among the candidates of the highest priority the resolver selects  *)
(* one whose lastModified is maximal, a record without lastModified        *)
(* counting as time 0; the session carries that time.                      *)
(***************************************************************************)
LatestOfTopPriority ==
    (rSession # None /\ Candidates # <<>>) =>
        \E k \in LatestTopCandidates :
            /\ SelectedIs(k)
            /\ rSession[1].lastModified = StampOf(Candidates[k].item)

\* the candidate listed second is selected: the first has no lastModified
LaterListedNewerWitness ==
    /\ rSession # None
    /\ Cardinality(TopCandidates) = 2
    /\ Candidates[1].item.lastModified = None
    /\ StampOf(Candidates[2].item) > 0
    /\ SelectedIs(2)

\* every task of a tree, at any depth
RECURSIVE TasksOf(_)
TasksOf(tasks) ==
    IF tasks = <<>> THEN {}
    ELSE {Head(tasks)} \cup TasksOf(Head(tasks).subtasks) \cup TasksOf(Tail(tasks))

\* the spec record the session was made from
SelectedSpecs ==
    IF rSession # None /\ rSession[1].type = "spec" /\ ~IsAdHoc(rSession[1])
    THEN {rSpecs[i] : i \in {i \in 1..Len(rSpecs) : rSpecs[i].name = rSession[1].specName}}
    ELSE {}

\* the bug record the session was made from
SelectedBugs ==
    IF rSession # None /\ rSession[1].type = "bug"
    THEN {rBugs[j] : j \in {j \in 1..Len(rBugs) : rBugs[j].name = rSession[1].bugName}}
    ELSE {}

(***************************************************************************)
(* C32: the task of a spec session is the task of the spec's tree whose id *)
(* is the spec's in-progress id, at any depth; without an in-progress id,  *)
(* or with one that is nowhere in the tree, it is the placeholder with id  *)
(* 'session', the spec's display name as description and completed false.  *)
(***************************************************************************)
TaskIsInProgressOrPlaceholder ==
    \A spec \in SelectedSpecs :
        LET inTree == IF TaskInProgress(spec)
                      THEN {t \in TasksOf(spec.tasks[1].taskList) :
                                t.id = spec.tasks[1].inProgress}
                      ELSE {}
        IN IF inTree # {}
           THEN rSession[1].task \in inTree
           ELSE /\ rSession[1].task.id = "session"
                /\ rSession[1].task.description =
                       (IF spec.displayName = Undefined THEN spec.name ELSE spec.displayName)
                /\ rSession[1].task.completed = FALSE

\* the in-progress task is a subtask
NestedTaskWitness ==
    /\ SelectedSpecs # {}
    /\ rSession[1].task.id = "2.3"
    /\ \A k \in 1..Len(TaskList) : TaskList[k].id # "2.3"

\* the command the claim gives for a status
CommandOfStatus(status) ==
    CASE status \in {"reported", "analyzing"} -> "/bug-analyze"
      [] status = "fixing" -> "/bug-fix"
      [] status \in {"verifying", "fixed"} -> "/bug-verify"
      [] status = "resolved" -> ""

ExpectedCommand(bug) ==
    IF CommandOfStatus(bug.status) = "" THEN <<>>
    ELSE <<CommandOfStatus(bug.status), bug.name>>

(***************************************************************************)
(* C33: the nextCommand of a bug is given by its status alone (reported,   *)
(* analyzing: analyze; fixing: fix; verifying, fixed: verify; resolved:    *)
(* empty), and a bug session carries it with the bug's severity, absent    *)
(* when the bug has none.                                                  *)
(***************************************************************************)
NextCommandFollowsStatus ==
    rSession # None =>
        /\ \A j \in 1..Len(rBugs) : NextCommand(rBugs[j]) = ExpectedCommand(rBugs[j])
        /\ \A bug \in SelectedBugs :
              /\ rSession[1].nextCommand = ExpectedCommand(bug)
              /\ rSession[1].bugSeverity = bug.severity

\* a fixed bug without a severity is selected and a resolved bug was read
FixedBugVerifiesWitness ==
    /\ \E bug \in SelectedBugs : bug.status = "fixed" /\ bug.severity = Undefined
    /\ rSession[1].nextCommand = <<"/bug-verify", rSession[1].bugName>>
    /\ \E j \in 1..Len(rBugs) : rBugs[j].status = "resolved"

TiesFollowListingOrder ==
    (rSession # None /\ Candidates # <<>>) =>
        /\ \A k \in LatestTopCandidates :
              (\A j \in LatestTopCandidates : k <= j) => SelectedIs(k)
        /\ \A j, k \in 1..Len(Candidates) :
              (Candidates[j].type = "spec" /\ Candidates[k].type = "bug") => j < k

\* a spec and a bug tie in the fallback, and so do the two specs
TieWitness ==
    /\ rSession # None
    /\ Cardinality(LatestTopCandidates) >= 3
    /\ \E j, k \in LatestTopCandidates : Candidates[j].type # Candidates[k].type
    /\ SelectedIs(1)
    /\ Candidates[1].type = "spec"


\* the slots of the registry whose project has the attached-process flag
FlaggedEntries ==
    {j \in Live(projects) : inst[projects[j][1].inst].project.hasActiveSession}

(***************************************************************************)
(* C36: the snapshot of a rescan that no other rescan overlapped, whose    *)
(* collection therefore ran on a registry nothing mutated, has exactly one *)
(* entry for each registered workspace whose attached-process flag is      *)
(* true, and no other entry.                                               *)
(***************************************************************************)
OneEntryPerFlaggedWorkspace ==
    (finished # None /\ finished[1].solo) =>
        LET snap == finished[1].snap[1] IN
        /\ Len(snap) = Cardinality(FlaggedEntries)
        /\ \A j \in FlaggedEntries :
              Cardinality({i \in 1..Len(snap) :
                              snap[i].projectPath = projects[j][1].key}) = 1

\* two flagged workspaces, one of them without any record
TwoFlaggedWorkspacesWitness ==
    /\ finished # None
    /\ finished[1].solo
    /\ Cardinality(FlaggedEntries) = 2
    /\ \E i \in 1..Len(finished[1].snap[1]) : IsAdHoc(finished[1].snap[1][i])
    /\ \E i \in 1..Len(finished[1].snap[1]) : ~IsAdHoc(finished[1].snap[1][i])


\* collectActiveSessions run to its end on the state as it is
RECURSIVE CollectToEnd(_)
CollectToEnd(col) ==
    IF col.stage = "done" THEN col.acc
    ELSE CollectToEnd(CollectRead(col, projects, inst))

CurrentSessions == CollectToEnd(CollectActiveSessions(projects, inst))

ProjectPaths(sessions) == [i \in 1..Len(sessions) |-> sessions[i].projectPath]

\* no rescan, 'change' handler or sendInitialState is suspended
HandlersQuiet ==
    /\ \A p \in DOMAIN passes : ~InFlight(passes[p])
    /\ \A h \in DOMAIN changes : changes[h].pc = "idle"
    /\ \A c \in DOMAIN initials : initials[c].pc \in {"idle", "done", "failed"}

(***************************************************************************)
(* C34: snapshots are broadcast in the order of the states they were       *)
(* computed from: once every handler has finished, the last                *)
(* active-sessions-update delivered lists the workspaces the resolver      *)
(* lists for the registry as it is, not those of a registry an overlapping *)
(* handler has changed since.                                              *)
(***************************************************************************)
LastUpdateIsCurrent ==
    (/\ HandlersQuiet
     /\ out # <<>>
     /\ out[Len(out)].to # {}
     /\ out[Len(out)].msg.type = "active-sessions-update") =>
        ProjectPaths(out[Len(out)].msg.data) = ProjectPaths(CurrentSessions)


\* the calls of initializeProject whose notifier has been started
StartedWatchers(insts) == {id \in DOMAIN insts : insts[id].watcher \in {"starting", "running"}}

(***************************************************************************)
(* C35: after stop() has returned no step starts a notifier, adds a        *)
(* registry entry or delivers a message: a rescan or a handler that was in *)
(* flight when stop() was called does none of these afterwards.            *)
(***************************************************************************)
NothingAfterStop ==
    [][life.phase = "stopped" =>
          /\ StartedWatchers(inst') \subseteq StartedWatchers(inst)
          /\ \A id \in DOMAIN inst' :
                inst'[id].watcher = "running" =>
                    (id \in DOMAIN inst /\ inst[id].watcher = "running")
          /\ MapKeys(projects') \subseteq MapKeys(projects)
          /\ \A k \in 1..Len(out') : out'[k].to = {}]_vars


\* what a 'git-change' event leaves of a stored value
Carried(field, stored) == IF field # Undefined THEN field ELSE stored

\* the project object of call id after the event ev
ProjectAfter(ev, id) ==
    IF ev.kind = "git-change" /\ ev.id = id
    THEN [inst[id].project EXCEPT !.gitBranch = Carried(ev.branch, @),
                                  !.gitCommit = Carried(ev.commit, @)]
    ELSE inst[id].project

(***************************************************************************)
(* C39: a push-event handler adds and removes no registry entry and leaves *)
(* every other workspace as it was: a version-control event sets the       *)
(* branch and the commit of its own workspace, a field it does not carry   *)
(* keeping its value, and its git-update message carries the stored        *)
(* values; document, steering and bug events change no registry field.     *)
(***************************************************************************)
PushEventsFrame ==
    [][\A k \in 1..Len(events'.emitted) :
          LET ev == events'.emitted[k] IN
          /\ projects' = projects
          /\ DOMAIN inst' = DOMAIN inst
          /\ \A id \in DOMAIN inst :
                /\ inst'[id].watcher = inst[id].watcher
                /\ inst'[id].project = ProjectAfter(ev, id)
          /\ ev.kind = "git-change" =>
                /\ Len(out') = 1
                /\ out'[1].msg =
                       [type |-> "git-update",
                        projectPath |-> inst[ev.id].project.path,
                        gitBranch |-> inst'[ev.id].project.gitBranch,
                        gitCommit |-> inst'[ev.id].project.gitCommit]]_vars

\* an event that carries a commit and no branch has followed one that set the
\* branch, the other workspace keeping its own
BranchKeptWitness ==
    /\ Len(events.emitted) = 1
    /\ events.emitted[1].kind = "git-change"
    /\ events.emitted[1].branch = Undefined
    /\ events.emitted[1].commit = "c1"
    /\ inst[events.emitted[1].id].project.gitBranch = "dev"
    /\ inst[events.emitted[1].id].project.gitCommit = "c1"
    /\ \E id \in DOMAIN inst :
          /\ id # events.emitted[1].id
          /\ inst[id].project.gitBranch = "main"
          /\ id \in {projects[j][1].inst : j \in Live(projects)}


\* the file names both diffs of the input print
PrintedByBoth(input) ==
    {input.headFiles[k] : k \in DOMAIN input.headFiles}
        \cap {input.baseFiles[k] : k \in DOMAIN input.baseFiles} \cap FileNames

\* the checks of the claim, read from the input
ConflictDetected(input) == ~input.diffThrows /\ PrintedByBoth(input) # {}
HeadUpToDate(input) ==
    /\ ~input.fetchThrows
    /\ input.mergeBase[1] = input.baseCommit[1]

(***************************************************************************)
(* C40: checkMergeReadiness returns ready = true exactly when its blockers *)
(* list is empty: ready requires that no conflicting file was detected and *)
(* that the head branch is up to date with the base, each failed check     *)
(* adds one blocker, and an error caught during the checks yields          *)
(* ready = false with a blocker.                                           *)
(***************************************************************************)
ReadyIffNoBlockers ==
    merge.status # None =>
        LET status == merge.status[1]
            input == merge.input[1]
        IN /\ status.ready <=> (status.blockers = <<>>)
           /\ IF input.pr.head = None
              THEN ~status.ready /\ Len(status.blockers) = 1
              ELSE /\ status.ready <=> (~ConflictDetected(input) /\ HeadUpToDate(input))
                   /\ Len(status.blockers) =
                          (IF ConflictDetected(input) THEN 1 ELSE 0)
                              + (IF HeadUpToDate(input) THEN 0 ELSE 1)

\* ready: both branches changed files, none in common, and the two hashes
\* differ only by the end of line
ReadyWitness ==
    /\ merge.status # None
    /\ merge.status[1].ready
    /\ FilesOf(merge.input[1].headFiles) # <<>>
    /\ FilesOf(merge.input[1].baseFiles) # <<>>
    /\ merge.input[1].mergeBase # merge.input[1].baseCommit


====
